---- MODULE Spec2Model ----
(***************************************************************************)
(* Document retrieval subsystem of the HR dashboard                        *)
(* (src/document_processor.py): chunker, flat-file chunk store, synonym     *)
(* expansion and keyword search.                                           *)
(*                                                                         *)
(* Python strings and byte payloads are sequences of one-character         *)
(* strings, so that splitting, joining, prefix and substring tests are      *)
(* computed and not assumed.                                               *)
(***************************************************************************)
EXTENDS Integers, Sequences, FiniteSets, TLC

(***************************************************************************)
(* Bounds of the model.                                                    *)
(***************************************************************************)
MaxTextLen == 8        \* longest text handed to the chunker harness
MaxChunkSize == 3      \* largest chunk_size tried by the chunker harness
MaxOverlap == 2        \* largest overlap tried by the chunker harness

(***************************************************************************)
(* Characters and string helpers (Python str methods and the regular       *)
(* expressions \s, \w used by the module).                                 *)
(***************************************************************************)
Whitespace == {" ", "\n", "\t"}
SentenceEnd == {".", "!", "?"}

IsSpace(c) == c \in Whitespace

Min(S) == CHOOSE m \in S : \A n \in S : m <= n
Max(S) == CHOOSE m \in S : \A n \in S : m >= n

\* s[-n:] for n > 0
LastN(s, n) == IF n >= Len(s) THEN s ELSE SubSeq(s, Len(s) - n + 1, Len(s))
\* s[:n] for n >= 0
FirstN(s, n) == IF n >= Len(s) THEN s ELSE SubSeq(s, 1, n)
\* s[n:] for n >= 0
DropN(s, n) == IF n >= Len(s) THEN <<>> ELSE SubSeq(s, n + 1, Len(s))

\* re.sub(r'\s+', ' ', s): every maximal run of whitespace becomes one space
CollapseWs(s) ==
    LET keep == SelectSeq([i \in 1..Len(s) |-> i],
                          LAMBDA i : ~IsSpace(s[i]) \/ i = 1 \/ ~IsSpace(s[i - 1]))
    IN [k \in 1..Len(keep) |-> IF IsSpace(s[keep[k]]) THEN " " ELSE s[keep[k]]]

\* str.strip()
Strip(s) ==
    LET idx == {i \in 1..Len(s) : ~IsSpace(s[i])}
    IN IF idx = {} THEN <<>> ELSE SubSeq(s, Min(idx), Max(idx))

\* str.split(): the maximal runs of non-whitespace characters, found one
\* run at a time from position i on
RECURSIVE SplitFrom(_, _, _)
SplitFrom(s, i, cur) ==
    LET starts == {j \in i..Len(s) : ~IsSpace(s[j])}
    IN IF starts = {} THEN cur
       ELSE LET first == Min(starts)
                spaces == {j \in first..Len(s) : IsSpace(s[j])}
                stop == IF spaces = {} THEN Len(s) + 1 ELSE Min(spaces)
            IN SplitFrom(s, stop, Append(cur, SubSeq(s, first, stop - 1)))

Split(s) == SplitFrom(s, 1, <<>>)

\* ' '.join(parts)
RECURSIVE Join(_)
Join(parts) ==
    IF parts = <<>> THEN <<>>
    ELSE IF Len(parts) = 1 THEN parts[1]
    ELSE parts[1] \o <<" ">> \o Join(Tail(parts))

\* re.split(r'(?<=[.!?])\s+', s): cut at every whitespace run that directly
\* follows '.', '!' or '?'; the result always has at least one element
RECURSIVE SplitSentencesFrom(_, _, _)
SplitSentencesFrom(s, i, start) ==
    LET breaks == {j \in i..Len(s) :
                      IsSpace(s[j]) /\ j > 1 /\ s[j - 1] \in SentenceEnd}
    IN IF breaks = {} THEN <<SubSeq(s, start, Len(s))>>
       ELSE LET at == Min(breaks)
                rest == {j \in at..Len(s) : ~IsSpace(s[j])}
                nxt == IF rest = {} THEN Len(s) + 1 ELSE Min(rest)
            IN <<SubSeq(s, start, at - 1)>> \o SplitSentencesFrom(s, nxt, nxt)

SplitSentences(s) == SplitSentencesFrom(s, 1, 1)

(***************************************************************************)
(* chunk_text                                                              *)
(***************************************************************************)
\* a seed taken from the head of the closed chunk instead of its tail
OverlapWords_head(prev_chunk, overlap) == FirstN(Split(prev_chunk), overlap)

\* chunks[-1].split()[-overlap:] (line 134): the words that seed the next chunk
OverlapWords(prev_chunk, overlap) == LastN(Split(prev_chunk), overlap)

\* a chunk_text that forgets the chunk still open when the loop ends
FlushLast_forget(chunks, current_chunk) == chunks

\* "Don't forget last chunk" (lines 142-143)
FlushLast(chunks, current_chunk) ==
    IF current_chunk # <<>> THEN Append(chunks, Join(current_chunk)) ELSE chunks

\* the for loop over the sentences (lines 119-139); the result is the pair
\* of `chunks` and `current_chunk` when the loop ends
RECURSIVE PackSentences(_, _, _, _, _, _, _)
PackSentences(sentences, i, chunks, current_chunk, current_word_count, chunk_size, overlap) ==
    IF i > Len(sentences)
    THEN [chunks |-> chunks, current_chunk |-> current_chunk]
    ELSE
      LET sentence == sentences[i]
          sentence_word_count == Len(Split(sentence))
      IN IF current_word_count + sentence_word_count <= chunk_size
         THEN PackSentences(sentences, i + 1, chunks,
                            Append(current_chunk, sentence),
                            current_word_count + sentence_word_count,
                            chunk_size, overlap)
         ELSE
           LET closed == IF current_chunk # <<>>
                         THEN Append(chunks, Join(current_chunk))
                         ELSE chunks
           IN IF closed # <<>> /\ overlap > 0
              THEN LET prev_words == OverlapWords(closed[Len(closed)], overlap)
                   IN PackSentences(sentences, i + 1, closed,
                                    <<Join(prev_words), sentence>>,
                                    Len(prev_words) + sentence_word_count,
                                    chunk_size, overlap)
              ELSE PackSentences(sentences, i + 1, closed, <<sentence>>,
                                 sentence_word_count, chunk_size, overlap)

\* the while loop of the word-based fallback (lines 151-156); Python's loop
\* does not end when overlap >= chunk_size, the recursion stops there
RECURSIVE WordWindows(_, _, _, _)
WordWindows(words, start, chunk_size, overlap) ==
    IF start >= Len(words) THEN <<>>
    ELSE LET end == start + chunk_size
             chunk == Join(SubSeq(words, start + 1,
                                  IF end > Len(words) THEN Len(words) ELSE end))
         IN IF end - overlap <= start THEN <<chunk>>
            ELSE <<chunk>> \o WordWindows(words, end - overlap, chunk_size, overlap)

chunk_text(text0, chunk_size, overlap) ==
    LET text == Strip(CollapseWs(text0))
        sentences == SplitSentences(text)
    IN IF sentences = <<>>
       THEN (IF text # <<>> THEN <<text>> ELSE <<>>)
       ELSE
         LET loop == PackSentences(sentences, 1, <<>>, <<>>, 0, chunk_size, overlap)
             chunks == FlushLast(loop.chunks, loop.current_chunk)
         IN IF chunks = <<>>
            THEN LET words == Split(text)
                 IN IF Len(words) <= chunk_size
                    THEN (IF text # <<>> THEN <<text>> ELSE <<>>)
                    ELSE WordWindows(words, 0, chunk_size, overlap)
            ELSE chunks

(***************************************************************************)
(* Query tokenisation and synonym expansion                                *)
(***************************************************************************)
UpperToLower ==
    "A" :> "a" @@ "B" :> "b" @@ "C" :> "c" @@ "D" :> "d" @@ "E" :> "e" @@ "F" :> "f" @@
    "G" :> "g" @@ "H" :> "h" @@ "I" :> "i" @@ "J" :> "j" @@ "K" :> "k" @@ "L" :> "l" @@
    "M" :> "m" @@ "N" :> "n" @@ "O" :> "o" @@ "P" :> "p" @@ "Q" :> "q" @@ "R" :> "r" @@
    "S" :> "s" @@ "T" :> "t" @@ "U" :> "u" @@ "V" :> "v" @@ "W" :> "w" @@ "X" :> "x" @@
    "Y" :> "y" @@ "Z" :> "z"

\* str.lower()
Lower(s) == [i \in 1..Len(s) |->
                IF s[i] \in DOMAIN UpperToLower THEN UpperToLower[s[i]] ELSE s[i]]

\* the characters matched by \w
WordChars ==
    {"a", "b", "c", "d", "e", "f", "g", "h", "i", "j", "k", "l", "m", 
     "n", "o", "p", "q", "r", "s", "t", "u", "v", "w", "x", "y", "z",
     "0", "1", "2", "3", "4", "5", "6", "7", "8", "9", "_"}
    \cup DOMAIN UpperToLower

IsWordChar(c) == c \in WordChars

\* re.findall(r'\b\w+\b', s): the maximal runs of word characters, in order
RECURSIVE FindWordsFrom(_, _, _)
FindWordsFrom(s, i, cur) ==
    IF i > Len(s) THEN (IF cur = <<>> THEN <<>> ELSE <<cur>>)
    ELSE IF ~IsWordChar(s[i])
         THEN (IF cur = <<>> THEN <<>> ELSE <<cur>>) \o FindWordsFrom(s, i + 1, <<>>)
         ELSE FindWordsFrom(s, i + 1, Append(cur, s[i]))

FindWords(s) == FindWordsFrom(s, 1, <<>>)

Range(f) == {f[i] : i \in DOMAIN f}

\* Synonym mappings for HR domain: key -> the synonyms listed under it
HR_SYNONYMS ==
       (<<"c","o","m","p","e","n","s","a","t","i","o","n">> :> {
         <<"s","a","l","a","r","y">>, <<"p","a","y">>, <<"w","a","g","e">>,
         <<"w","a","g","e","s">>, <<"p","a","y","m","e","n","t">>,
         <<"e","a","r","n","i","n","g","s">>, <<"i","n","c","o","m","e">>,
         <<"r","a","t","e">>, <<"h","o","u","r","l","y">>, <<"$">>,
         <<"u","s","d">>, <<"s","t","i","p","e","n","d">>,
         <<"r","e","m","u","n","e","r","a","t","i","o","n">>})
    @@ (<<"s","a","l","a","r","y">> :> {
         <<"c","o","m","p","e","n","s","a","t","i","o","n">>, <<"p","a","y">>,
         <<"w","a","g","e">>, <<"w","a","g","e","s">>,
         <<"p","a","y","m","e","n","t">>, <<"e","a","r","n","i","n","g","s">>,
         <<"i","n","c","o","m","e">>, <<"$">>, <<"a","n","n","u","a","l">>,
         <<"y","e","a","r","l","y">>})
    @@ (<<"p","a","y">> :> {
         <<"s","a","l","a","r","y">>,
         <<"c","o","m","p","e","n","s","a","t","i","o","n">>,
         <<"w","a","g","e">>, <<"w","a","g","e","s">>,
         <<"p","a","y","m","e","n","t">>, <<"e","a","r","n","i","n","g","s">>,
         <<"i","n","c","o","m","e">>, <<"$">>})
    @@ (<<"b","e","n","e","f","i","t","s">> :> {
         <<"i","n","s","u","r","a","n","c","e">>, <<"h","e","a","l","t","h">>,
         <<"d","e","n","t","a","l">>, <<"v","i","s","i","o","n">>,
         <<"4","0","1","k">>, <<"r","e","t","i","r","e","m","e","n","t">>,
         <<"p","t","o">>, <<"v","a","c","a","t","i","o","n">>,
         <<"p","e","r","k","s">>, <<"p","a","c","k","a","g","e">>})
    @@ (<<"v","a","c","a","t","i","o","n">> :> {
         <<"p","t","o">>, <<"t","i","m","e"," ","o","f","f">>,
         <<"l","e","a","v","e">>, <<"h","o","l","i","d","a","y">>,
         <<"h","o","l","i","d","a","y","s">>,
         <<"d","a","y","s"," ","o","f","f">>,
         <<"p","a","i","d"," ","l","e","a","v","e">>})
    @@ (<<"l","e","a","v","e">> :> {
         <<"p","t","o">>, <<"v","a","c","a","t","i","o","n">>,
         <<"t","i","m","e"," ","o","f","f">>, <<"a","b","s","e","n","c","e">>,
         <<"s","i","c","k">>, <<"p","a","r","e","n","t","a","l">>,
         <<"m","a","t","e","r","n","i","t","y">>,
         <<"p","a","t","e","r","n","i","t","y">>})
    @@ (<<"r","e","q","u","i","r","e","m","e","n","t","s">> :> {
         <<"q","u","a","l","i","f","i","c","a","t","i","o","n","s">>,
         <<"r","e","q","u","i","r","e","d">>,
         <<"m","u","s","t"," ","h","a","v","e">>,
         <<"e","x","p","e","r","i","e","n","c","e">>,
         <<"s","k","i","l","l","s">>, <<"e","d","u","c","a","t","i","o","n">>,
         <<"d","e","g","r","e","e">>})
    @@ (<<"q","u","a","l","i","f","i","c","a","t","i","o","n","s">> :> {
         <<"r","e","q","u","i","r","e","m","e","n","t","s">>,
         <<"r","e","q","u","i","r","e","d">>,
         <<"e","x","p","e","r","i","e","n","c","e">>,
         <<"s","k","i","l","l","s">>, <<"e","d","u","c","a","t","i","o","n">>,
         <<"c","r","e","d","e","n","t","i","a","l","s">>})
    @@ (<<"r","e","s","p","o","n","s","i","b","i","l","i","t","i","e","s">> :> {
         <<"d","u","t","i","e","s">>, <<"t","a","s","k","s">>,
         <<"r","o","l","e">>, <<"j","o","b"," ","d","u","t","i","e","s">>,
         <<"a","c","c","o","u","n","t","a","b","i","l","i","t","i","e","s">>,
         <<"w","o","r","k">>, <<"p","e","r","f","o","r","m">>})
    @@ (<<"d","u","t","i","e","s">> :> {
         <<"r","e","s","p","o","n","s","i","b","i","l","i","t","i","e","s">>,
         <<"t","a","s","k","s">>, <<"j","o","b"," ","d","u","t","i","e","s">>,
         <<"a","c","c","o","u","n","t","a","b","i","l","i","t","i","e","s">>,
         <<"w","o","r","k">>})
    @@ (<<"e","x","p","e","r","i","e","n","c","e">> :> {
         <<"y","e","a","r","s">>, <<"b","a","c","k","g","r","o","u","n","d">>,
         <<"e","x","p","e","r","t","i","s","e">>,
         <<"h","i","s","t","o","r","y">>, <<"p","r","i","o","r">>,
         <<"p","r","e","v","i","o","u","s">>})
    @@ (<<"s","k","i","l","l","s">> :> {
         <<"a","b","i","l","i","t","i","e","s">>,
         <<"c","o","m","p","e","t","e","n","c","i","e","s">>,
         <<"p","r","o","f","i","c","i","e","n","c","y">>,
         <<"e","x","p","e","r","t","i","s","e">>,
         <<"k","n","o","w","l","e","d","g","e">>})
    @@ (<<"p","o","l","i","c","y">> :> {
         <<"p","o","l","i","c","i","e","s">>,
         <<"p","r","o","c","e","d","u","r","e">>,
         <<"p","r","o","c","e","d","u","r","e","s">>,
         <<"g","u","i","d","e","l","i","n","e","s">>, <<"r","u","l","e","s">>,
         <<"h","a","n","d","b","o","o","k">>})
    @@ (<<"e","m","p","l","o","y","e","e">> :> {
         <<"s","t","a","f","f">>, <<"w","o","r","k","e","r">>,
         <<"t","e","a","m"," ","m","e","m","b","e","r">>,
         <<"p","e","r","s","o","n","n","e","l">>, <<"h","i","r","e">>})
    @@ (<<"m","a","n","a","g","e","r">> :> {
         <<"s","u","p","e","r","v","i","s","o","r">>, <<"l","e","a","d">>,
         <<"d","i","r","e","c","t","o","r">>, <<"b","o","s","s">>,
         <<"h","e","a","d">>})
    @@ (<<"i","n","t","e","r","n">> :> {
         <<"i","n","t","e","r","n","s","h","i","p">>,
         <<"t","r","a","i","n","e","e">>,
         <<"a","p","p","r","e","n","t","i","c","e">>,
         <<"e","n","t","r","y"," ","l","e","v","e","l">>,
         <<"j","u","n","i","o","r">>})
    @@ (<<"j","o","b">> :> {
         <<"p","o","s","i","t","i","o","n">>, <<"r","o","l","e">>,
         <<"o","p","p","o","r","t","u","n","i","t","y">>,
         <<"o","p","e","n","i","n","g">>,
         <<"e","m","p","l","o","y","m","e","n","t">>})
    @@ (<<"l","o","c","a","t","i","o","n">> :> {
         <<"o","f","f","i","c","e">>, <<"r","e","m","o","t","e">>,
         <<"h","y","b","r","i","d">>, <<"o","n","s","i","t","e">>,
         <<"w","o","r","k"," ","f","r","o","m"," ","h","o","m","e">>,
         <<"w","f","h">>, <<"c","i","t","y">>,
         <<"a","d","d","r","e","s","s">>})
    @@ (<<"d","e","s","c","r","i","p","t","i","o","n">> :> {
         <<"j","d">>,
         <<"j","o","b"," ","d","e","s","c","r","i","p","t","i","o","n">>,
         <<"r","o","l","e"," ","d","e","s","c","r","i","p","t","i","o","n">>,
         <<"o","v","e","r","v","i","e","w">>,
         <<"s","u","m","m","a","r","y">>})
    @@ (<<"h","r">> :> {
         <<"h","u","m","a","n"," ","r","e","s","o","u","r","c","e","s">>,
         <<"p","e","o","p","l","e">>,
         <<"p","e","o","p","l","e"," ","o","p","e","r","a","t","i","o","n","s">>,
         <<"t","a","l","e","n","t">>,
         <<"p","e","r","s","o","n","n","e","l">>})

STOPWORDS == {
    <<"a">>, <<"a","n">>, <<"t","h","e">>, <<"i","s">>, <<"a","r","e">>,
    <<"w","a","s">>, <<"w","e","r","e">>, <<"b","e">>, <<"b","e","e","n">>,
    <<"b","e","i","n","g">>, <<"h","a","v","e">>, <<"h","a","s">>,
    <<"h","a","d">>, <<"d","o">>, <<"d","o","e","s">>, <<"d","i","d">>,
    <<"w","i","l","l">>, <<"w","o","u","l","d">>, <<"c","o","u","l","d">>,
    <<"s","h","o","u","l","d">>, <<"m","a","y">>, <<"m","i","g","h","t">>,
    <<"m","u","s","t">>, <<"s","h","a","l","l">>, <<"c","a","n">>,
    <<"n","e","e","d">>, <<"d","a","r","e">>, <<"o","u","g","h","t">>,
    <<"u","s","e","d">>, <<"t","o">>, <<"o","f">>, <<"i","n">>,
    <<"f","o","r">>, <<"o","n">>, <<"w","i","t","h">>, <<"a","t">>,
    <<"b","y">>, <<"f","r","o","m">>, <<"u","p">>, <<"a","b","o","u","t">>,
    <<"i","n","t","o">>, <<"t","h","r","o","u","g","h">>,
    <<"d","u","r","i","n","g">>, <<"b","e","f","o","r","e">>,
    <<"a","f","t","e","r">>, <<"a","b","o","v","e">>, <<"b","e","l","o","w">>,
    <<"b","e","t","w","e","e","n">>, <<"u","n","d","e","r">>,
    <<"a","g","a","i","n">>, <<"f","u","r","t","h","e","r">>,
    <<"t","h","e","n">>, <<"o","n","c","e">>, <<"h","e","r","e">>,
    <<"t","h","e","r","e">>, <<"w","h","e","n">>, <<"w","h","e","r","e">>,
    <<"w","h","y">>, <<"h","o","w">>, <<"a","l","l">>, <<"e","a","c","h">>,
    <<"f","e","w">>, <<"m","o","r","e">>, <<"m","o","s","t">>,
    <<"o","t","h","e","r">>, <<"s","o","m","e">>, <<"s","u","c","h">>,
    <<"n","o">>, <<"n","o","r">>, <<"n","o","t">>, <<"o","n","l","y">>,
    <<"o","w","n">>, <<"s","a","m","e">>, <<"s","o">>, <<"t","h","a","n">>,
    <<"t","o","o">>, <<"v","e","r","y">>, <<"s">>, <<"t">>,
    <<"j","u","s","t">>, <<"d","o","n">>, <<"n","o","w">>, <<"i">>,
    <<"m","e">>, <<"m","y">>, <<"m","y","s","e","l","f">>, <<"w","e">>,
    <<"o","u","r">>, <<"o","u","r","s">>,
    <<"o","u","r","s","e","l","v","e","s">>, <<"y","o","u">>,
    <<"y","o","u","r">>, <<"y","o","u","r","s">>,
    <<"y","o","u","r","s","e","l","f">>,
    <<"y","o","u","r","s","e","l","v","e","s">>, <<"h","e">>, <<"h","i","m">>,
    <<"h","i","s">>, <<"h","i","m","s","e","l","f">>, <<"s","h","e">>,
    <<"h","e","r">>, <<"h","e","r","s">>, <<"h","e","r","s","e","l","f">>,
    <<"i","t">>, <<"i","t","s">>, <<"i","t","s","e","l","f">>,
    <<"t","h","e","y">>, <<"t","h","e","m">>, <<"t","h","e","i","r">>,
    <<"t","h","e","i","r","s">>, <<"t","h","e","m","s","e","l","v","e","s">>,
    <<"w","h","a","t">>, <<"w","h","i","c","h">>, <<"w","h","o">>,
    <<"w","h","o","m">>, <<"t","h","i","s">>, <<"t","h","a","t">>,
    <<"t","h","e","s","e">>, <<"t","h","o","s","e">>, <<"a","m">>,
    <<"a","n","d">>, <<"b","u","t">>, <<"i","f">>, <<"o","r">>,
    <<"b","e","c","a","u","s","e">>, <<"a","s">>, <<"u","n","t","i","l">>,
    <<"w","h","i","l","e">>, <<"a","l","t","h","o","u","g","h">>,
    <<"f","i","n","d">>, <<"t","e","l","l">>, <<"m","e">>,
    <<"p","l","e","a","s","e">>, <<"h","e","l","p">>, <<"g","e","t">>,
    <<"g","i","v","e">>, <<"s","h","o","w">>, <<"l","i","s","t">>
}

\* set(re.findall(r'\b\w+\b', query.lower())) - STOPWORDS (lines 351-355, 391)
QueryWords(query) == Range(FindWords(Lower(query))) \ STOPWORDS

expand_query_with_synonyms(query) ==
    LET query_words == QueryWords(query)
        direct == UNION {HR_SYNONYMS[word] :
                            word \in query_words \cap DOMAIN HR_SYNONYMS}
        reverse == UNION {{key} \cup HR_SYNONYMS[key] :
                            key \in {k \in DOMAIN HR_SYNONYMS :
                                        query_words \cap HR_SYNONYMS[k] # {}}}
    IN query_words \cup direct \cup reverse

(***************************************************************************)
(* Uploads, file names and the document store                              *)
(***************************************************************************)
\* chunk_size=250 and overlap=50 are the defaults save_document chunks with
\* (line 93); they are scaled down so that a text of a few words spans
\* several chunks
DefaultChunkSize == 3
DefaultOverlap == 1

MaxCalls == 3          \* save_document / delete_document calls in one run

\* uploaded payloads
C_EMPTY == <<>>
C_ONE == <<"P", "a", "y", " ", "i", "s", " ", "$", "9", ".">>
C_TWO == <<"P", "t", "o", " ", "a", ".", " ", "b", " ", "p", "t", "o", ".", " ", "d">>
Contents == {C_EMPTY, C_ONE, C_TWO}

\* a payload that ends in a byte that is not UTF-8
C_BAD == <<"P", "a", "y", "0xFF">>

\* the questions and top_k values readers search with
Q_PAY_ANALYSTS == <<"W", "h", "a", "t", " ", "i", "s", " ", "t", "h", "e", " ",
                    "p", "a", "y", " ", "f", "o", "r", " ",
                    "a", "n", "a", "l", "y", "s", "t", "s", "?">>
Q_LEAVE == <<"L", "e", "a", "v", "e", " ", "p", "o", "l", "i", "c", "y">>
Queries == {Q_PAY_ANALYSTS, Q_LEAVE}
TopKs == {1, 5}

\* upload names
FN_A == <<"a", ".", "t", "x", "t">>
FN_AB == <<"a", " ", "b", ".", "t", "x", "t">>

\* chunk texts of the search harness
T_SALARY ==
    <<"S", "a", "l", "a", "r", "y", " ", "r", "a", "n", "g", "e", " ", "i",
      "s", " ", "$", "5", "0", ",", "0", "0", "0", "-", "$", "6", "0", ",",
      "0", "0", "0", " ", "f", "o", "r", " ", "a", "n", "a", "l", "y", "s",
      "t", "s", ".">>
T_BENEFITS ==
    <<"B", "e", "n", "e", "f", "i", "t", "s", " ", "i", "n", "c", "l", "u",
      "d", "e", " ", "h", "e", "a", "l", "t", "h", " ", "i", "n", "s", "u",
      "r", "a", "n", "c", "e", " ", "a", "n", "d", " ", "4", "0", "1", "k",
      ".">>
T_PAYPAY == <<"P", "a", "y", " ", "p", "a", "y", ".">>
T_AMOUNT == <<"5", "0", ",", "0", "0", "0">>

\* the documents of the search harness: upload name and chunks
FN_H == <<"h", ".", "t", "x", "t">>
FN_P == <<"p", ".", "t", "x", "t">>
FN_N == <<"n", ".", "t", "x", "t">>
D_HANDBOOK == [filename |-> FN_H, chunks |-> <<T_SALARY, T_BENEFITS>>]
D_PAYPAY == [filename |-> FN_P, chunks |-> <<T_PAYPAY>>]
D_AMOUNT == [filename |-> FN_N, chunks |-> <<T_AMOUNT>>]
D_ONE == [filename |-> FN_A, chunks |-> <<C_ONE>>]
SearchDocs == {D_HANDBOOK, D_PAYPAY, D_AMOUNT, D_ONE}

Q_PAY == <<"p", "a", "y">>
Q_PAY_BENEFITS == <<"p", "a", "y", " ", "b", "e", "n", "e", "f", "i", "t", "s">>
SearchQueries == Queries \cup {Q_PAY, Q_PAY_BENEFITS}
SearchTopKs == {0, 1, 2, 5}

\* Python's None / a dict given as the set of its (key, value) items
NoMetadata == [isNone |-> TRUE, items |-> {}]
MD_POLICY == [isNone |-> FALSE, items |-> {<<"category", "policy">>}]

\* the uploads tried: (filename, content, metadata)
Uploads == {<<FN_A, C_TWO, NoMetadata>>,
            <<FN_AB, C_TWO, MD_POLICY>>,
            <<FN_AB, C_TWO, NoMetadata>>,
            <<FN_A, C_ONE, NoMetadata>>,
            <<FN_AB, C_EMPTY, NoMetadata>>}

\* metadata or {}
OrEmptyDict(metadata) == IF metadata.isNone THEN {} ELSE metadata.items

\* hashlib.md5(content).hexdigest(), cut to its first two hex digits: the
\* digests of the modelled payloads differ there already
compute_file_hash(content) ==
    CASE content = C_EMPTY -> <<"d", "4">>
      [] content = C_ONE   -> <<"7", "1">>
      [] content = C_TWO   -> <<"5", "3">>
      [] content = Join(D_HANDBOOK.chunks) -> <<"6", "d">>
      [] content = T_PAYPAY -> <<"b", "a">>
      [] content = T_AMOUNT -> <<"3", "3">>
      [] content = C_BAD -> <<"f", "e">>

Digits == <<"0", "1", "2", "3", "4", "5", "6", "7", "8", "9">>

\* str(n) for n >= 0
RECURSIVE Str(_)
Str(n) == IF n < 10 THEN <<Digits[n + 1]>>
          ELSE Str(n \div 10) \o <<Digits[(n % 10) + 1]>>

\* Path(filename).suffix.lower()
Suffix(filename) ==
    LET slashes == {i \in 1..Len(filename) : filename[i] = "/"}
        name == IF slashes = {} THEN filename
                ELSE SubSeq(filename, Max(slashes) + 1, Len(filename))
        dots == {i \in 1..Len(name) : name[i] = "."}
    IN IF dots = {} \/ Max(dots) = 1 \/ Max(dots) = Len(name) THEN <<>>
       ELSE Lower(SubSeq(name, Max(dots), Len(name)))

\* re.sub(r'[^\w\-_\.]', '_', filename)
SafeFilename(filename) ==
    [i \in 1..Len(filename) |->
        IF IsWordChar(filename[i]) \/ filename[i] \in {"-", "_", "."}
        THEN filename[i] ELSE "_"]

\* DOCUMENTS_DIR / f"{file_hash}_{safe_filename}", as the name inside the
\* directory
FilePath(file_hash, filename) == file_hash \o <<"_">> \o SafeFilename(filename)

\* fnmatch of a name of DOCUMENTS_DIR against a glob pattern ('*' and '?')
RECURSIVE GlobMatch(_, _)
GlobMatch(pattern, name) ==
    IF pattern = <<>> THEN name = <<>>
    ELSE IF Head(pattern) = "*"
         THEN \/ GlobMatch(Tail(pattern), name)
              \/ (name # <<>> /\ GlobMatch(pattern, Tail(name)))
    ELSE /\ name # <<>>
         /\ (Head(pattern) = "?" \/ Head(pattern) = Head(name))
         /\ GlobMatch(Tail(pattern), Tail(name))

\* bytes.decode('utf-8', errors='ignore'): bytes that are not valid text
\* are dropped
InvalidByte == "0xFF"
Decode(content) == SelectSeq(content, LAMBDA b : b # InvalidByte)

\* file types with a parser branch (lines 48 and 66)
PDF_TYPE == <<".", "p", "d", "f">>
WORD_TYPES == {<<".", "d", "o", "c", "x">>, <<".", "d", "o", "c">>}

\* the strings returned when the parser package is missing (lines 63, 80)
PdfPlaceholder ==
    <<"[", "P", "D", "F", " ", "s", "u", "p", "p", "o", "r", "t", " ",
      "r", "e", "q", "u", "i", "r", "e", "s", " ", "p", "y", "p", "d",
      "f", " ", "p", "a", "c", "k", "a", "g", "e", ".", " ", "I", "n",
      "s", "t", "a", "l", "l", " ", "w", "i", "t", "h", ":", " ", "p",
      "i", "p", " ", "i", "n", "s", "t", "a", "l", "l", " ", "p", "y",
      "p", "d", "f", "]">>
DocxPlaceholder ==
    <<"[", "D", "O", "C", "X", " ", "s", "u", "p", "p", "o", "r", "t",
      " ", "r", "e", "q", "u", "i", "r", "e", "s", " ", "p", "y", "t",
      "h", "o", "n", "-", "d", "o", "c", "x", " ", "p", "a", "c", "k",
      "a", "g", "e", ".", " ", "I", "n", "s", "t", "a", "l", "l", " ",
      "w", "i", "t", "h", ":", " ", "p", "i", "p", " ", "i", "n", "s",
      "t", "a", "l", "l", " ", "p", "y", "t", "h", "o", "n", "-", "d",
      "o", "c", "x", "]">>

\* what a statement of the try block does: it returns a text, or raises
\* ImportError, or raises another Exception whose str() is the value
Returns(text) == [kind |-> "return", value |-> text]
RaisesImportError == [kind |-> "ImportError", value |-> <<>>]
RaisesException(message) == [kind |-> "Exception", value |-> message]

\* str(e) of the FileNotFoundError of open(file_path, 'r')
NoSuchFile(file_path) ==
    <<"[", "E", "r", "r", "n", "o", " ", "2", "]", " ", "N", "o", " ",
      "s", "u", "c", "h", " ", "f", "i", "l", "e", " ", "o", "r", " ",
      "d", "i", "r", "e", "c", "t", "o", "r", "y", ":", " ", "'">>
    \o file_path \o <<"'">>

\* the parsers are not part of the repository: on any payload the package
\* may be missing, the parser may raise with some message, or return text
ParserMessages ==
    {<<>>,
     <<"E", "O", "F", " ", "m", "a", "r", "k", "e", "r", " ", "n", "o",
      "t", " ", "f", "o", "u", "n", "d">>}
ParsedTexts == {<<"P", "a", "y", " ", "i", "s", " ", "$", "9", ".", "\n">>}
ParserOutcomes ==
    {RaisesImportError}
    \cup {RaisesException(message) : message \in ParserMessages}
    \cup {Returns(text) : text \in ParsedTexts}

\* the branch for plain-text and unknown types (lines 41-45 and 82-87): the
\* payload if it is non-empty, else the file under file_path
ReadAsText(disk, file_path, file_content) ==
    IF file_content # <<>> THEN {Returns(Decode(file_content))}
    ELSE IF file_path \in DOMAIN disk THEN {Returns(Decode(disk[file_path]))}
    ELSE {RaisesException(NoSuchFile(file_path))}

\* the branches of the try block before any handler (lines 41-87)
TryBlock(disk, file_path, file_content, file_type) ==
    IF file_type = PDF_TYPE \/ file_type \in WORD_TYPES THEN ParserOutcomes
    ELSE ReadAsText(disk, file_path, file_content)

\* except ImportError of the parser branches (lines 62-63 and 79-80)
ExceptImportError(outcome, file_type) ==
    IF outcome.kind = "ImportError"
    THEN Returns(IF file_type = PDF_TYPE THEN PdfPlaceholder ELSE DocxPlaceholder)
    ELSE outcome

ErrorPrefix ==
    <<"[", "E", "r", "r", "o", "r", " ", "e", "x", "t", "r", "a", "c",
      "t", "i", "n", "g", " ", "t", "e", "x", "t", ":", " ">>

\* a handler that lets every exception but ImportError pass
ExceptException_none(outcome) ==
    IF outcome.kind = "Exception"
    THEN [raised |-> TRUE, kind |-> outcome.kind, text |-> <<>>]
    ELSE [raised |-> FALSE, kind |-> outcome.kind, text |-> outcome.value]

\* except Exception as e (lines 89-90): what the caller gets, with the kind
\* of outcome it came from
ExceptException(outcome) ==
    IF outcome.kind = "Exception"
    THEN [raised |-> FALSE, kind |-> outcome.kind,
          text |-> ErrorPrefix \o outcome.value \o <<"]">>]
    ELSE [raised |-> FALSE, kind |-> outcome.kind, text |-> outcome.value]

\* extract_text_from_file with file_type given: the results it may have
extract_text_from_file(disk, file_path, file_content, file_type) ==
    {ExceptException(ExceptImportError(outcome, file_type)) :
        outcome \in TryBlock(disk, file_path, file_content, file_type)}

(***************************************************************************)
(* The chunk mapping: a Python dict / JSON object, kept in insertion order *)
(* as a sequence of [key, val] entries                                     *)
(***************************************************************************)
DictKeys(d) == {d[i].key : i \in 1..Len(d)}

\* an assignment that always adds an entry, also for a key already there
DictSet_append(d, key, val) == Append(d, [key |-> key, val |-> val])

\* d[key] = val: replaces the value in place, or appends a new entry
DictSet(d, key, val) ==
    IF key \in DictKeys(d)
    THEN [i \in 1..Len(d) |-> IF d[i].key = key THEN [key |-> key, val |-> val]
                                                ELSE d[i]]
    ELSE Append(d, [key |-> key, val |-> val])

\* the store before the first write: no file
NoChunksFile == [exists |-> FALSE, entries |-> <<>>, closed |-> FALSE]

\* a chunk file that holds the mapping m, completely written
FileOf(m) == [exists |-> TRUE, entries |-> m, closed |-> TRUE]

\* json.load on the open chunk file (line 233): the mapping, or an exception
\* on a file that was truncated and not written to its end
JsonLoad(file) ==
    IF file.closed THEN [kind |-> "return", value |-> file.entries]
    ELSE [kind |-> "Exception", value |-> <<>>]

\* a load that hands back the entries it could read before the failure
load_all_chunks_partial(file) ==
    IF file.exists THEN file.entries ELSE <<>>

\* load_all_chunks: the parsed mapping, or {} when the file is missing or
\* json.load fails on it (lines 230-236)
load_all_chunks(file) ==
    IF file.exists /\ JsonLoad(file).kind = "return" THEN file.entries ELSE <<>>

\* a save_document that keys the chunks by upload name instead of by hash
RECURSIVE StoreChunks_byName(_, _, _, _, _, _)
StoreChunks_byName(all_chunks, chunks, i, file_hash, filename, metadata) ==
    IF i >= Len(chunks) THEN all_chunks
    ELSE StoreChunks_byName(
            DictSet(all_chunks, filename \o <<"_">> \o Str(i),
                    [doc_id |-> file_hash,
                     doc_name |-> filename,
                     chunk_index |-> i,
                     text |-> chunks[i + 1],
                     metadata |-> OrEmptyDict(metadata)]),
            chunks, i + 1, file_hash, filename, metadata)

\* the for loop of save_document that stores the chunks (lines 212-220)
RECURSIVE StoreChunks(_, _, _, _, _, _)
StoreChunks(all_chunks, chunks, i, file_hash, filename, metadata) ==
    IF i >= Len(chunks) THEN all_chunks
    ELSE StoreChunks(
            DictSet(all_chunks, file_hash \o <<"_">> \o Str(i),
                    [doc_id |-> file_hash,
                     doc_name |-> filename,
                     chunk_index |-> i,
                     text |-> chunks[i + 1],
                     metadata |-> OrEmptyDict(metadata)]),
            chunks, i + 1, file_hash, filename, metadata)

\* a delete_document that finds only the first chunk of the document
ChunksToRemove_firstOnly(all_chunks, doc_id) ==
    {all_chunks[i].key : i \in {k \in 1..Len(all_chunks) :
                                    /\ all_chunks[k].val.doc_id = doc_id
                                    /\ all_chunks[k].val.chunk_index = 0}}

\* chunks_to_remove of delete_document (line 258)
ChunksToRemove(all_chunks, doc_id) ==
    {all_chunks[i].key : i \in {k \in 1..Len(all_chunks) :
                                    all_chunks[k].val.doc_id = doc_id}}

\* del all_chunks[chunk_id] for every chunk_id to remove (lines 260-261)
RemoveChunks(all_chunks, chunks_to_remove) ==
    SelectSeq(all_chunks, LAMBDA e : e.key \notin chunks_to_remove)

\* DOCUMENTS_DIR.glob(f"{doc_id}_*") raises NotImplementedError
\* ("Non-relative patterns are unsupported") on a pattern that starts with
\* a slash; the for statement of line 266 is outside the try of line 267
GlobRaises(doc_id) == doc_id # <<>> /\ doc_id[1] = "/"

\* DOCUMENTS_DIR.glob(f"{doc_id}_*") (line 266)
GlobDocFiles(disk, doc_id) ==
    {name \in DOMAIN disk : GlobMatch(doc_id \o <<"_", "*">>, name)}

\* a grouping that creates the summary of a document and then does not
\* count its further chunks
RECURSIVE GroupDocs_firstOnly(_, _, _)
GroupDocs_firstOnly(all_chunks, i, docs) ==
    IF i > Len(all_chunks) THEN docs
    ELSE LET chunk == all_chunks[i].val
             known == {k \in 1..Len(docs) : docs[k].id = chunk.doc_id}
         IN IF known = {}
            THEN GroupDocs_firstOnly(all_chunks, i + 1,
                           Append(docs, [id |-> chunk.doc_id,
                                         filename |-> chunk.doc_name,
                                         chunk_count |-> 1,
                                         metadata |-> chunk.metadata]))
            ELSE GroupDocs_firstOnly(all_chunks, i + 1, docs)

\* get_all_documents: one summary per doc_id, in order of first appearance
RECURSIVE GroupDocs(_, _, _)
GroupDocs(all_chunks, i, docs) ==
    IF i > Len(all_chunks) THEN docs
    ELSE LET chunk == all_chunks[i].val
             known == {k \in 1..Len(docs) : docs[k].id = chunk.doc_id}
         IN IF known = {}
            THEN GroupDocs(all_chunks, i + 1,
                           Append(docs, [id |-> chunk.doc_id,
                                         filename |-> chunk.doc_name,
                                         chunk_count |-> 1,
                                         metadata |-> chunk.metadata]))
            ELSE GroupDocs(all_chunks, i + 1,
                           [k \in 1..Len(docs) |->
                               IF k \in known
                               THEN [docs[k] EXCEPT !.chunk_count = @ + 1]
                               ELSE docs[k]])

get_all_documents(file) == GroupDocs(load_all_chunks(file), 1, <<>>)

\* has_uploaded_documents
has_uploaded_documents(file) == load_all_chunks(file) # <<>>

(***************************************************************************)
(* simple_search                                                           *)
(*                                                                         *)
(* Scores are kept as integers, 20 times the Python value: every weight    *)
(* of the source is a multiple of 1/10 and the proximity boost multiplies  *)
(* by 3/2, so 20 * score is an even integer at every step.  The sums are   *)
(* exact, where Python adds floats.                                        *)
(***************************************************************************)
\* s[i:i+len(w)] == w, with i counted from 1
MatchesAt(w, s, i) ==
    /\ i >= 1
    /\ i + Len(w) - 1 <= Len(s)
    /\ \A k \in 1..Len(w) : s[i + k - 1] = w[k]

\* w in s
Contains(w, s) == \E i \in 1..(Len(s) - Len(w) + 1) : MatchesAt(w, s, i)

\* the start positions of the non-overlapping occurrences of w in s, found
\* from left to right (str.count, re.finditer(re.escape(w), s)); w is not
\* empty
RECURSIVE OccurrencesFrom(_, _, _)
OccurrencesFrom(w, s, i) ==
    IF i + Len(w) - 1 > Len(s) THEN {}
    ELSE IF MatchesAt(w, s, i) THEN {i} \cup OccurrencesFrom(w, s, i + Len(w))
    ELSE OccurrencesFrom(w, s, i + 1)

Occurrences(w, s) == OccurrencesFrom(w, s, 1)

\* '-' and the en dash (one character, written by its code point)
Dashes == {"-", "0x2013"}

DigitChars == {"0", "1", "2", "3", "4", "5", "6", "7", "8", "9"}

CharAt(s, i) == IF i >= 1 /\ i <= Len(s) THEN s[i] ELSE ""

\* the first position >= i of s whose character is not in cs (Len(s) + 1 if
\* there is none): where a greedy [cs]* that starts at i stops
RunEnd(s, i, cs) ==
    LET stops == {j \in i..Len(s) : s[j] \notin cs}
    IN IF stops = {} THEN (IF i > Len(s) + 1 THEN i ELSE Len(s) + 1)
       ELSE Min(stops)

\* \$[\d,]+(?:\.\d{2})? at position i: the position after the match, 0 if
\* there is no match
AmountEnd(s, i) ==
    IF CharAt(s, i) = "$" /\ CharAt(s, i + 1) \in DigitChars \cup {","}
    THEN LET j == RunEnd(s, i + 1, DigitChars \cup {","})
         IN IF /\ CharAt(s, j) = "."
               /\ CharAt(s, j + 1) \in DigitChars
               /\ CharAt(s, j + 2) \in DigitChars
            THEN j + 3 ELSE j
    ELSE 0

RateUnits == <<<<"h", "o", "u", "r">>, <<"h", "r">>, <<"y", "e", "a", "r">>, <<"y", "r">>, <<"m", "o", "n", "t", "h">>, <<"m", "o">>, <<"w", "e", "e", "k">>, <<"w", "k">>>>

\* (?:\s*(?:per|\/)\s*(?:hour|hr|year|yr|month|mo|week|wk))? at position i
RateEnd(s, i) ==
    LET a == RunEnd(s, i, Whitespace)
        b == IF MatchesAt(<<"p", "e", "r">>, s, a) THEN a + 3
             ELSE IF CharAt(s, a) = "/" THEN a + 1 ELSE 0
        c == IF b = 0 THEN 0 ELSE RunEnd(s, b, Whitespace)
        units == {k \in 1..Len(RateUnits) : c # 0 /\ MatchesAt(RateUnits[k], s, c)}
    IN IF units = {} THEN i ELSE c + Len(RateUnits[Min(units)])

\* (?:\s*[-\u2013]\s*\$[\d,]+(?:\.\d{2})?)? at position i
RangeEnd(s, i) ==
    LET a == RunEnd(s, i, Whitespace)
        b == IF CharAt(s, a) \in Dashes THEN RunEnd(s, a + 1, Whitespace) ELSE 0
        e == IF b = 0 THEN 0 ELSE AmountEnd(s, b)
    IN IF e = 0 THEN i ELSE e

\* dollar_pattern (line 429) at position i: the position after the match,
\* 0 if there is no match
DollarEnd(s, i) ==
    LET a == AmountEnd(s, i)
    IN IF a = 0 THEN 0 ELSE RateEnd(s, RangeEnd(s, a))

\* len(re.findall(dollar_pattern, s))
RECURSIVE DollarMatchesFrom(_, _)
DollarMatchesFrom(s, i) ==
    IF i > Len(s) THEN 0
    ELSE LET e == DollarEnd(s, i)
         IN IF e = 0 THEN DollarMatchesFrom(s, i + 1)
            ELSE 1 + DollarMatchesFrom(s, e)

DollarMatches(s) == DollarMatchesFrom(s, 1)

\* \d+k at position i, where i starts a run of digits tried at every length
\* (the run must be followed by k): the position after the match, 0 if none
ThousandsEnd(s, i) ==
    IF CharAt(s, i) \in DigitChars
    THEN LET j == RunEnd(s, i, DigitChars)
         IN IF CharAt(s, j) = "k" THEN j + 1 ELSE 0
    ELSE 0

\* re.search(r'\d+k\s*[-\u2013]\s*\d+k', s)
HasKRange(s) ==
    \E i \in 1..Len(s) :
        LET a == ThousandsEnd(s, i)
            b == IF a = 0 THEN 0 ELSE RunEnd(s, a, Whitespace)
            c == IF b # 0 /\ CharAt(s, b) \in Dashes
                 THEN RunEnd(s, b + 1, Whitespace) ELSE 0
        IN c # 0 /\ ThousandsEnd(s, c) # 0

\* re.search(r'\d{2,3},\d{3}', s)
HasThousandsSeparator(s) ==
    \E i \in 1..Len(s), n \in {2, 3} :
        /\ \A j \in i..(i + n - 1) : CharAt(s, j) \in DigitChars
        /\ CharAt(s, i + n) = ","
        /\ \A j \in (i + n + 1)..(i + n + 3) : CharAt(s, j) \in DigitChars

SalaryKeywords == {<<"s", "a", "l", "a", "r", "y">>,
                   <<"p", "a", "y">>,
                   <<"h", "o", "u", "r", "l", "y">>,
                   <<"r", "a", "t", "e">>,
                   <<"c", "o", "m", "p", "e", "n", "s", "a", "t", "i", "o", "n">>}

\* re.search(r'(?:salary|pay|hourly|rate|compensation).*?\d+', s): a keyword
\* and, later on the same line, a digit
HasKeywordThenNumber(s) ==
    \E w \in SalaryKeywords, i \in 1..Len(s) :
        /\ MatchesAt(w, s, i)
        /\ \E j \in (i + Len(w))..Len(s) :
              /\ s[j] \in DigitChars
              /\ \A k \in (i + Len(w))..(j - 1) : s[k] # "\n"

CompensationWords == {<<"c", "o", "m", "p", "e", "n", "s", "a", "t", "i", "o", "n">>, <<"s", "a", "l", "a", "r", "y">>, <<"p", "a", "y">>, <<"w", "a", "g", "e">>}

\* what one expanded query word adds to the score of a chunk (lines 402-424),
\* times 20
WordScore(word, text, text_words, original_words) ==
    IF word \in STOPWORDS THEN 0
    ELSE IF word \in text_words
    THEN Cardinality(Occurrences(word, text))
           * (IF word \in original_words THEN 3 ELSE 1) * (10 + Len(word)) * 2
    ELSE IF Len(word) > 3
            /\ \E text_word \in text_words :
                  Contains(word, text_word) \/ Contains(text_word, word)
    THEN (IF word \in original_words THEN 30 ELSE 10)
    ELSE 0

\* the for loop over the expanded query words (lines 402-424): the sum of
\* what each word adds
RECURSIVE TermScore(_, _, _, _)
TermScore(query_words, text, text_words, original_words) ==
    IF query_words = {} THEN 0
    ELSE LET word == CHOOSE w \in query_words : TRUE
         IN WordScore(word, text, text_words, original_words)
            + TermScore(query_words \ {word}, text, text_words, original_words)

\* the bonus for amounts and salary patterns (lines 427-443), times 20
PatternScore(text, original_words) ==
    IF original_words \cap CompensationWords # {}
    THEN DollarMatches(text) * 200
         + (IF HasKRange(text) THEN 100 ELSE 0)
         + (IF HasThousandsSeparator(text) THEN 100 ELSE 0)
         + (IF HasKeywordThenNumber(text) THEN 100 ELSE 0)
    ELSE 0

\* two occurrences of original query words start less than 50 characters
\* apart (lines 452-461)
WordsCloseTogether(text, original_words) ==
    LET positions == UNION {{<<word, pos>> : pos \in Occurrences(word, text)} :
                               word \in original_words}
    IN \E a \in positions, b \in positions :
          /\ a # b
          /\ a[2] <= b[2]
          /\ b[2] - a[2] < 50

\* the strings re.findall(dollar_pattern, s) returns
RECURSIVE DollarMatchListFrom(_, _)
DollarMatchListFrom(s, i) ==
    IF i > Len(s) THEN <<>>
    ELSE LET e == DollarEnd(s, i)
         IN IF e = 0 THEN DollarMatchListFrom(s, i + 1)
            ELSE <<SubSeq(s, i, e - 1)>> \o DollarMatchListFrom(s, e)

DollarMatchList(s) == DollarMatchListFrom(s, 1)

\* what one expanded query word appends to matches (lines 416 and 423):
\* the word, or word~text_word for a partial match with the first text word
\* found (text_words is a set: which one is first is up to Python)
WordMatch(word, text_words) ==
    IF word \in STOPWORDS THEN <<>>
    ELSE IF word \in text_words THEN <<word>>
    ELSE IF Len(word) > 3
            /\ \E text_word \in text_words :
                  Contains(word, text_word) \/ Contains(text_word, word)
    THEN LET text_word == CHOOSE w \in text_words :
                             Contains(word, w) \/ Contains(w, word)
         IN <<word \o <<"~">> \o text_word>>
    ELSE <<>>

\* the matches the loop over the expanded query words collects, in the
\* order the set is walked
RECURSIVE TermMatches(_, _)
TermMatches(query_words, text_words) ==
    IF query_words = {} THEN <<>>
    ELSE LET word == CHOOSE w \in query_words : TRUE
         IN WordMatch(word, text_words)
            \o TermMatches(query_words \ {word}, text_words)

\* matches[:10] of one chunk (lines 399-433 and 470): the term matches, then
\* the dollar amounts; the salary patterns of lines 436-443 append nothing
ChunkMatches(query_words, original_words, chunk_text0) ==
    LET text == Lower(chunk_text0)
        text_words == Range(FindWords(text))
    IN FirstN(TermMatches(query_words, text_words)
              \o (IF original_words \cap CompensationWords # {}
                  THEN DollarMatchList(text) ELSE <<>>),
              10)

\* the score of one chunk (lines 395-461), times 20; query_words and
\* original_words are computed once per search (lines 390-391)
ChunkScore(query, query_words, original_words, chunk_text0) ==
    LET text == Lower(chunk_text0)
        text_words == Range(FindWords(text))
        base == TermScore(query_words, text, text_words, original_words)
                + PatternScore(text, original_words)
    IN IF Cardinality(original_words) > 1
       THEN IF Contains(Lower(query), text) THEN base * 3
            ELSE IF WordsCloseTogether(text, original_words)
                 THEN (base * 3) \div 2
                 ELSE base
       ELSE base

\* ChunkScore and ChunkMatches of the modelled questions on the modelled
\* chunk texts, tabulated once
UploadTexts ==
    UNION {Range(chunk_text(Decode(c), DefaultChunkSize, DefaultOverlap)) :
              c \in Contents}

SearchTexts == UNION {Range(d.chunks) : d \in SearchDocs}

ScoreTable ==
    [q \in SearchQueries |->
        [t \in UploadTexts \cup SearchTexts |->
            ChunkScore(q, expand_query_with_synonyms(q), QueryWords(q), t)]]

\* score of the loop body for one chunk, looked up
ScoreOf(query, chunk_text0) == ScoreTable[query][chunk_text0]

MatchTable ==
    [q \in SearchQueries |->
        [t \in UploadTexts \cup SearchTexts |->
            ChunkMatches(expand_query_with_synonyms(q), QueryWords(q), t)]]

\* matches of the loop body for one chunk, looked up
MatchesOf(query, chunk_text0) == MatchTable[query][chunk_text0]

\* a sort that puts smaller scores first
RECURSIVE SortByScore_ascending(_)
SortByScore_ascending(results) ==
    IF results = <<>> THEN <<>>
    ELSE LET rest == SortByScore_ascending(Tail(results))
             r == Head(results)
             higher == {k \in 1..Len(rest) : rest[k].score >= r.score}
             at == IF higher = {} THEN Len(rest) + 1 ELSE Min(higher)
         IN SubSeq(rest, 1, at - 1) \o <<r>> \o SubSeq(rest, at, Len(rest))

\* results.sort(key=score, reverse=True): stable, larger scores first
RECURSIVE SortByScore(_)
SortByScore(results) ==
    IF results = <<>> THEN <<>>
    ELSE LET rest == SortByScore(Tail(results))
             r == Head(results)
             \* r goes before the first element with a score not above its own
             lower == {k \in 1..Len(rest) : rest[k].score <= r.score}
             at == IF lower = {} THEN Len(rest) + 1 ELSE Min(lower)
         IN SubSeq(rest, 1, at - 1) \o <<r>> \o SubSeq(rest, at, Len(rest))

\* s[:n] for any integer n
SliceTo(s, n) ==
    IF n >= 0 THEN FirstN(s, n)
    ELSE IF Len(s) + n <= 0 THEN <<>> ELSE FirstN(s, Len(s) + n)

\* the result record of one stored chunk (lines 464-472)
ResultOf(entry, query) ==
    [chunk_id |-> entry.key,
     doc_id |-> entry.val.doc_id,
     doc_name |-> entry.val.doc_name,
     text |-> entry.val.text,
     score |-> ScoreOf(query, entry.val.text),
     matches |-> MatchesOf(query, entry.val.text),
     metadata |-> entry.val.metadata]

\* a loop that keeps every chunk, whatever its score
ScoredChunks_keepAll(all_chunks, query) ==
    SelectSeq([i \in 1..Len(all_chunks) |-> ResultOf(all_chunks[i], query)],
              LAMBDA r : r.score >= 0)

\* the loop over the chunks (lines 393-472): a result, in mapping order,
\* for every chunk that scores above 0
ScoredChunks(all_chunks, query) ==
    SelectSeq([i \in 1..Len(all_chunks) |-> ResultOf(all_chunks[i], query)],
              LAMBDA r : r.score > 0)

\* a search that falls back to the first stored chunks when nothing scores
simple_search_withFallback(file, query, top_k) ==
    IF ScoredChunks(load_all_chunks(file), query) = <<>>
    THEN SliceTo([i \in 1..Len(load_all_chunks(file)) |->
                     ResultOf(load_all_chunks(file)[i], query)], top_k)
    ELSE SliceTo(SortByScore(ScoredChunks(load_all_chunks(file), query)), top_k)

\* simple_search on the mapping load_all_chunks returned (an empty mapping
\* has no chunk to score: lines 385-386 return the same empty list)
simple_search(file, query, top_k) ==
    SliceTo(SortByScore(ScoredChunks(load_all_chunks(file), query)), top_k)

(***************************************************************************)
(* semantic_search_with_gemini and get_context_for_query                   *)
(***************************************************************************)
\* a sampling with replacement: a position may be drawn twice
Samples_withReplacement(population, k) ==
    {[i \in 1..k |-> population[f[i]]] : f \in [1..k -> 1..Len(population)]}

\* random.sample(population, k) for 0 <= k <= len(population): the lists of
\* k elements taken at pairwise distinct positions, in any order
Samples(population, k) ==
    {[i \in 1..k |-> population[f[i]]] :
        f \in {g \in [1..k -> 1..Len(population)] :
                  \A a, b \in 1..k : a # b => g[a] # g[b]}}

\* lines 492-506 of semantic_search_with_gemini, given the mapping and the
\* keyword results
SemanticResults(all_chunks, keyword_results, top_k) ==
    IF all_chunks = <<>> THEN {<<>>}
    ELSE IF keyword_results = <<>>
    THEN Samples([i \in 1..Len(all_chunks) |-> all_chunks[i].val],
                 Min({top_k, Len(all_chunks)}))
    ELSE {SliceTo(keyword_results, top_k)}

\* semantic_search_with_gemini for top_k >= 0: the lists it may return
semantic_search_with_gemini(file, query, top_k) ==
    SemanticResults(load_all_chunks(file), simple_search(file, query, 20), top_k)

\* the budget left below which an overflowing chunk is dropped instead of
\* cut: 100 in the source (line 534), scaled to the modelled chunk lengths
TruncateFloor == 20

Ellipsis == <<".", ".", ".">>

\* a loop that skips a chunk it cannot cut and goes on with the next one
RECURSIVE ContextParts_skip(_, _, _, _)
ContextParts_skip(results, i, total_chars, max_chars) ==
    IF i > Len(results) THEN <<>>
    ELSE LET text0 == results[i].text
             doc_name == results[i].doc_name
         IN IF total_chars + Len(text0) > max_chars
            THEN LET remaining == max_chars - total_chars
                     text == SliceTo(text0, remaining) \o Ellipsis
                 IN IF remaining > TruncateFloor
                    THEN <<[doc_name |-> doc_name, text |-> text]>>
                         \o ContextParts_skip(results, i + 1,
                                              total_chars + Len(text), max_chars)
                    ELSE ContextParts_skip(results, i + 1, total_chars, max_chars)
            ELSE <<[doc_name |-> doc_name, text |-> text0]>>
                 \o ContextParts_skip(results, i + 1,
                                      total_chars + Len(text0), max_chars)

\* the for loop of get_context_for_query (lines 529-542): the (doc_name,
\* text) pairs behind context_parts
RECURSIVE ContextParts(_, _, _, _)
ContextParts(results, i, total_chars, max_chars) ==
    IF i > Len(results) THEN <<>>
    ELSE LET text0 == results[i].text
             doc_name == results[i].doc_name
         IN IF total_chars + Len(text0) > max_chars
            THEN LET remaining == max_chars - total_chars
                     text == SliceTo(text0, remaining) \o Ellipsis
                 IN IF remaining > TruncateFloor
                    THEN <<[doc_name |-> doc_name, text |-> text]>>
                         \o ContextParts(results, i + 1,
                                         total_chars + Len(text), max_chars)
                    ELSE <<>>
            ELSE <<[doc_name |-> doc_name, text |-> text0]>>
                 \o ContextParts(results, i + 1,
                                 total_chars + Len(text0), max_chars)

\* f"[From: {doc_name}]\n{text}"
FromLabel(doc_name) ==
    <<"[", "F", "r", "o", "m", ":", " ">> \o doc_name \o <<"]", "\n">>

ContextSeparator == <<"\n", "\n", "-", "-", "-", "\n", "\n">>

\* "\n\n---\n\n".join(context_parts)
RECURSIVE JoinContext(_)
JoinContext(parts) ==
    IF parts = <<>> THEN <<>>
    ELSE FromLabel(parts[1].doc_name) \o parts[1].text
         \o (IF Len(parts) = 1 THEN <<>>
             ELSE ContextSeparator \o JoinContext(Tail(parts)))

\* the context built from one list of results (lines 523-544)
AssembleContext(results, max_chars) ==
    IF results = <<>> THEN <<>>
    ELSE JoinContext(ContextParts(results, 1, 0, max_chars))

\* get_context_for_query: the strings it may return
get_context_for_query(file, query, max_chunks, max_chars) ==
    {AssembleContext(results, max_chars) :
        results \in semantic_search_with_gemini(file, query, max_chunks)}

\* the branch answer_document_question takes on the context it got
\* (ai_utils.py, lines 352-364)
AnswerBranch(context) ==
    IF context = <<>> THEN "no_relevant_information" ELSE "prompt_llm"

(***************************************************************************)
(* ai_utils: the pure parts. An exception is [type, message], and str(e)    *)
(* is its message; a curly quote is one token ("0x2018" ... "0x201D"), and *)
(* so is the backtick ("0x60")                                             *)
(***************************************************************************)
\* models to try in order of preference (line 99)
GEMINI_MODELS == <<"gemini-2.5-flash", "gemini-2.0-flash", "gemini-2.0-flash-lite">>

\* max_retries of generate_sql_query (line 253)
max_retries == 3

\* '429' in error_str or 'RESOURCE_EXHAUSTED' in error_str or
\* 'quota' in error_str.lower() (lines 33 and 125)
IsRateLimit(error_str) ==
    \/ Contains(<<"4", "2", "9">>, error_str)
    \/ Contains(<<"R", "E", "S", "O", "U", "R", "C", "E", "_", "E", "X", "H", "A",
      "U", "S", "T", "E", "D">>, error_str)
    \/ Contains(<<"q", "u", "o", "t", "a">>, Lower(error_str))

\* the headline of the rate-limit message of handle_api_error (lines 37-49)
RateLimitMessage == <<"*", "*", "A", "P", "I", " ", "R", "a", "t", "e", " ", "L", "i",
      "m", "i", "t", " ", "R", "e", "a", "c", "h", "e", "d", "*", "*">>

ApiErrorPrefix == <<"A", "P", "I", " ", "E", "r", "r", "o", "r", ":", " ">>

\* a test that knows the status code only
handle_api_error_codeOnly(error) ==
    IF Contains(<<"4", "2", "9">>, error.message)
    THEN [is_rate_limit |-> TRUE, should_retry |-> FALSE, message |-> RateLimitMessage]
    ELSE [is_rate_limit |-> FALSE, should_retry |-> TRUE, message |-> ApiErrorPrefix \o error.message]

\* handle_api_error (lines 26-57)
handle_api_error(error) ==
    IF IsRateLimit(error.message)
    THEN [is_rate_limit |-> TRUE, should_retry |-> FALSE, message |-> RateLimitMessage]
    ELSE [is_rate_limit |-> FALSE, should_retry |-> TRUE, message |-> ApiErrorPrefix \o error.message]

\* str.upper()
Upper(s) ==
    [i \in 1..Len(s) |->
        IF \E u \in DOMAIN UpperToLower : UpperToLower[u] = s[i]
        THEN CHOOSE u \in DOMAIN UpperToLower : UpperToLower[u] = s[i]
        ELSE s[i]]

\* s.strip(chars)
StripChars(s, chars) ==
    LET idx == {i \in 1..Len(s) : s[i] \notin chars}
    IN IF idx = {} THEN <<>> ELSE SubSeq(s, Min(idx), Max(idx))

\* s.rstrip(chars)
RStripChars(s, chars) ==
    LET idx == {i \in 1..Len(s) : s[i] \notin chars}
    IN IF idx = {} THEN <<>> ELSE SubSeq(s, 1, Max(idx))

\* s.replace(old, ''): s without the non-overlapping occurrences of old
RemoveAll(s, old) ==
    LET starts == Occurrences(old, s)
        keep == SelectSeq([i \in 1..Len(s) |-> i],
                          LAMBDA i : \A p \in starts : i < p \/ i >= p + Len(old))
    IN [k \in 1..Len(keep) |-> s[keep[k]]]

\* the replacements of fix_sql_quotes (lines 192-201)
QuoteReplacements ==
    "0x2018" :> "'" @@ "0x2019" :> "'" @@ "0x201C" :> "\"" @@ "0x201D" :> "\"" @@ "0x60" :> "'"

\* fix_sql_quotes (lines 184-212)
fix_sql_quotes(sql_query) ==
    IF sql_query = <<>> THEN sql_query
    ELSE LET replaced == [i \in 1..Len(sql_query) |->
                             IF sql_query[i] \in DOMAIN QuoteReplacements
                             THEN QuoteReplacements[sql_query[i]]
                             ELSE sql_query[i]]
             single_quote_count == Cardinality({i \in 1..Len(replaced) : replaced[i] = "'"})
         IN IF single_quote_count % 2 # 0
            THEN (IF LastN(RStripChars(replaced, Whitespace), 1) = <<"%">>
                  THEN RStripChars(replaced, Whitespace) \o <<"'">>
                  ELSE replaced \o <<"'">>)
            ELSE replaced

Fence == <<"0x60", "0x60", "0x60">>

\* where the body of a fenced block opened at position i starts: after the
\* fence, an optional sql or sqlite in any case, and a newline; 0 if the
\* text does not go on like that
FenceBodyStart(s, i) ==
    LET p == i + 3
    IN IF MatchesAt(<<"\n">>, s, p) THEN p + 1
       ELSE IF MatchesAt(<<"s", "q", "l">>, Lower(s), p) /\ MatchesAt(<<"\n">>, s, p + 3) THEN p + 4
       ELSE IF MatchesAt(<<"s", "q", "l", "i", "t", "e">>, Lower(s), p) /\ MatchesAt(<<"\n">>, s, p + 6) THEN p + 7
       ELSE 0

\* the positions where a body that started at b can end: before a closing
\* fence, or before the newline in front of it
FenceBodyEnds(s, b) ==
    {e \in b..Len(s) : \/ MatchesAt(Fence, s, e)
                       \/ MatchesAt(<<"\n">>, s, e) /\ MatchesAt(Fence, s, e + 1)}

\* the re.search of line 261 for a fenced block (fence, optional sql or
\* sqlite, newline, body, optional newline, fence; DOTALL and IGNORECASE):
\* the leftmost match and, of it, the shortest body
FencedSql(s) ==
    LET opens == {i \in 1..Len(s) :
                     /\ MatchesAt(Fence, s, i)
                     /\ FenceBodyStart(s, i) # 0
                     /\ FenceBodyEnds(s, FenceBodyStart(s, i)) # {}}
    IN IF opens = {} THEN [found |-> FALSE, group |-> <<>>]
       ELSE LET b == FenceBodyStart(s, Min(opens))
            IN [found |-> TRUE, group |-> SubSeq(s, b, Min(FenceBodyEnds(s, b)) - 1)]

QuoteAndSpaceChars == {"\"", "'", "0x60", " ", "\n", "\t"}

\* the clean-up of the response text (lines 258-272)
CleanSql(text) ==
    LET stripped == Strip(text)
        sql_match == FencedSql(stripped)
        extracted == IF sql_match.found THEN sql_match.group ELSE stripped
        unlabelled == RemoveAll(RemoveAll(extracted, <<"S", "Q", "L", ":">>), <<"Q", "u", "e", "r", "y", ":">>)
        unquoted == StripChars(unlabelled, QuoteAndSpaceChars)
        unterminated == Strip(RStripChars(unquoted, {";"}))
    IN fix_sql_quotes(Join(Split(unterminated)))

\* a test that accepts every cleaned response
StartsWithSelect_any(sql_query) == Len(sql_query) >= 0

\* sql_query.upper().startswith("SELECT") (line 274)
StartsWithSelect(sql_query) == FirstN(Upper(sql_query), 6) = <<"S", "E", "L", "E", "C", "T">> /\ Len(sql_query) >= 6


(***************************************************************************)
(* State                                                                   *)
(***************************************************************************)
VARIABLES
    ck_text,       \* chunker harness: the text argument
    ck_size,       \* chunker harness: the chunk_size argument
    ck_overlap,    \* chunker harness: the overlap argument
    ck_done,       \* chunker harness: chunk_text has returned
    ck_chunks,     \* chunker harness: the list chunk_text returned
    sy_query,      \* synonym harness: the query argument
    sy_done,       \* synonym harness: expand_query_with_synonyms has returned
    sy_expanded,   \* synonym harness: the set it returned
    files,         \* DOCUMENTS_DIR: file name -> bytes
    chunks_file,   \* CHUNKS_FILE on disk
    pc,            \* where the running save_document / delete_document is
    call,          \* the running (or last) call: arguments, locals, result
    prev_call,     \* the call before it
    ncalls,        \* calls started so far
    deleted,       \* doc ids deleted and not uploaded again since
    rd,            \* a reader's call and what it returned
    ai             \* the assistant: where answer_hr_question is, and its locals

ckVars == <<ck_text, ck_size, ck_overlap, ck_done, ck_chunks>>
syVars == <<sy_query, sy_done, sy_expanded>>
diskVars == <<files, chunks_file>>
writerVars == <<pc, call, prev_call, ncalls, deleted>>
storeVars == <<files, chunks_file, pc, call, prev_call, ncalls, deleted, rd>>
aiVars == <<ai>>
vars == <<ck_text, ck_size, ck_overlap, ck_done, ck_chunks,
          sy_query, sy_done, sy_expanded,
          files, chunks_file, pc, call, prev_call, ncalls, deleted, rd, ai>>

\* what a reader of the store finds: the mapping load_all_chunks returns
\* and the raw files
Persisted == [mapping |-> load_all_chunks(chunks_file), files |-> files]

NoDocInfo == [id |-> <<>>, filename |-> <<>>, file_path |-> <<>>,
              file_type |-> <<>>, metadata |-> {}, chunk_count |-> 0,
              total_chars |-> 0]

\* no extraction has been made
NoExtract == [raised |-> FALSE, kind |-> "none", text |-> <<>>]

NoCall == [op |-> "none", status |-> "none", extracted |-> NoExtract,
           filename |-> <<>>, content |-> <<>>, metadata |-> NoMetadata,
           doc_id |-> <<>>,
           file_hash |-> <<>>, file_path |-> <<>>,
           chunks |-> <<>>, all_chunks |-> <<>>, removed |-> 0,
           to_unlink |-> {},
           doc_info |-> NoDocInfo, result |-> FALSE,
           pre |-> [mapping |-> <<>>, files |-> <<>>],
           post |-> [mapping |-> <<>>, files |-> <<>>]]

\* what is remembered of the call before the running one
Brief(c) == [op |-> c.op, status |-> c.status, filename |-> c.filename,
             content |-> c.content, metadata |-> c.metadata,
             doc_id |-> c.doc_id, file_hash |-> c.file_hash,
             returned_id |-> c.doc_info.id]

NoRead == [op |-> "none", query |-> <<>>, top_k |-> 0,
           hits |-> <<>>, docs |-> <<>>, has |-> FALSE,
           seen |-> <<>>, before |-> <<>>, after |-> <<>>,
           max_chars |-> 0, parts |-> <<>>, context |-> <<>>,
           extracted |-> NoExtract]

CkIdle ==
    /\ ck_text = <<>> /\ ck_size = 0 /\ ck_overlap = 0
    /\ ck_done = FALSE /\ ck_chunks = <<>>

SyIdle == sy_query = <<>> /\ sy_done = FALSE /\ sy_expanded = {}

StoreIdle ==
    /\ files = <<>>
    /\ chunks_file = NoChunksFile
    /\ pc = "idle"
    /\ call = NoCall
    /\ prev_call = Brief(NoCall)
    /\ ncalls = 0
    /\ deleted = {}
    /\ rd = NoRead

(***************************************************************************)
(* The assistant: answer_hr_question, one step per call of an external     *)
(* service (the classifier, the Gemini client, the models, the database)   *)
(* and per return of call_gemini_with_fallback to its caller. What an       *)
(* external service does is an input of the step.                          *)
(***************************************************************************)
NoError == [type |-> "none", message |-> <<>>]

\* response.text, a str or None
NoText == [isNone |-> TRUE, text |-> <<>>]
Text(t) == [isNone |-> FALSE, text |-> t]

\* the errors a model call raises
E_429 == [type |-> "ClientError", message |-> <<"4", "2", "9", " ", "T", "o", "o", " ", "M", "a", "n", "y", " ",
      "R", "e", "q", "u", "e", "s", "t", "s">>]
E_QUOTA == [type |-> "ClientError", message |-> <<"Q", "u", "o", "t", "a", " ", "e", "x", "c", "e", "e", "d", "e", "d">>]
E_EXHAUSTED == [type |-> "ClientError", message |-> <<"R", "E", "S", "O", "U", "R", "C", "E", "_", "E", "X", "H", "A", "U", "S", "T", "E", "D">>]
E_SERVER == [type |-> "ServerError", message |-> <<"5", "0", "0", " ", "I", "n", "t", "e", "r", "n", "a", "l", " ", "e", "r", "r", "o", "r">>]
ApiErrors == {E_429, E_QUOTA, E_EXHAUSTED, E_SERVER}

\* the texts a model answers with
R_SELECT == <<"S", "E", "L", "E", "C", "T", " ", "1", ";">>
R_FENCED == <<"0x60", "0x60", "0x60", "s", "q", "l", "\n", "s", "e", "l", "e", "c", "t",
      " ", "0x60", "a", "0x60", "\n", "0x60", "0x60", "0x60">>
R_LABEL == <<"S", "Q", "L", ":", " ", "S", "E", "L", "E", "C", "T", " ", "'", "a">>
R_PROSE == <<"S", "o", "r", "r", "y", ".">>
R_DROP == <<"D", "R", "O", "P", " ", "T", "A", "B", "L", "E", " ", "x">>
ResponseTexts == {Text(R_SELECT), Text(R_FENCED), Text(R_LABEL), Text(R_PROSE), Text(R_DROP), NoText}

\* the clean-up of every text a model answers with, computed once
CleanedResponses ==
    [t \in {r.text : r \in ResponseTexts \ {NoText}} |-> CleanSql(t)]

\* client.models.generate_content(model=..., contents=prompt) (lines 120-123)
GenerateContentOutcomes ==
    {[kind |-> "response", text |-> t, error |-> NoError] : t \in ResponseTexts}
    \cup {[kind |-> "raise", text |-> NoText, error |-> e] : e \in ApiErrors}

\* get_gemini_client (lines 102-110) without an API key
E_NO_KEY == [type |-> "ValueError", message |-> <<"G", "E", "M", "I", "N", "I", "_", "A", "P", "I", "_", "K", "E",
      "Y", " ", "o", "r", " ", "G", "O", "O", "G", "L", "E", "_", "A",
      "P", "I", "_", "K", "E", "Y", " ", "e", "n", "v", "i", "r", "o",
      "n", "m", "e", "n", "t", " ", "v", "a", "r", "i", "a", "b", "l",
      "e", " ", "i", "s", " ", "n", "o", "t", " ", "s", "e", "t", ".">>]

\* None.strip()
E_NONE_STRIP == [type |-> "AttributeError", message |-> <<"'", "N", "o", "n", "e", "T", "y", "p", "e", "'", " ", "o", "b",
      "j", "e", "c", "t", " ", "h", "a", "s", " ", "n", "o", " ", "a",
      "t", "t", "r", "i", "b", "u", "t", "e", " ", "'", "s", "t", "r",
      "i", "p", "'">>]

\* what classify_question, get_context_for_query and simple_search raise
\* on a store they cannot read
E_KEY == [type |-> "KeyError", message |-> <<"'", "t", "e", "x", "t", "'">>]

\* what execute_query raises
X_SYNTAX == [type |-> "OperationalError", message |-> <<"n", "e", "a", "r", " ", "\"", "x", "\"", ":", " ", "s", "y", "n",
      "t", "a", "x", " ", "e", "r", "r", "o", "r">>]
X_TOKEN == [type |-> "OperationalError", message |-> <<"u", "n", "r", "e", "c", "o", "g", "n", "i", "z", "e", "d", " ",
      "t", "o", "k", "e", "n", ":", " ", "\"", "#", "\"">>]
X_NO_TABLE == [type |-> "OperationalError", message |-> <<"n", "o", " ", "s", "u", "c", "h", " ", "t", "a", "b", "l", "e", ":", " ", "x">>]
ExecuteErrors == {X_SYNTAX, X_TOKEN, X_NO_TABLE}

\* the shapes of a result set: no row, one row of one column, one row with
\* a name, several rows
ResultShapes == {"empty", "count", "employee", "table"}

\* execute_query(query) (db_utils, lines 283-299): the rows, or the error
\* of cursor.execute
ExecuteOutcomes ==
    {[kind |-> "rows", shape |-> r, error |-> NoError] : r \in ResultShapes}
    \cup {[kind |-> "raise", shape |-> "none", error |-> e] : e \in ExecuteErrors}

\* the except clause of call_gemini_with_fallback that tries the next model
\* after every error
OnModelError_always(e) == IF Len(e.message) >= 0 THEN "continue" ELSE "raise"

\* the except clause of call_gemini_with_fallback (lines 124-130)
OnModelError(e) == IF IsRateLimit(e.message) THEN "continue" ELSE "raise"

\* a returned dict: status and answer (the other entries are left out)
ResultDict(status, answer) == [returned |-> TRUE, raised |-> FALSE, status |-> status, answer |-> answer]
NoResult == [returned |-> FALSE, raised |-> FALSE, status |-> "none", answer |-> NoText]

\* an answer_hr_question that lets the exception pass
UnexpectedError_reraise(e) == [returned |-> FALSE, raised |-> e.type # "none", status |-> "none", answer |-> NoText]

\* the last except clause of answer_hr_question (lines 483-489)
UnexpectedError(e) == ResultDict("error", Text(<<"U", "n", "e", "x", "p", "e", "c", "t", "e", "d", " ", "e", "r", "r", "o", "r", ":", " ">> \o e.message))

\* the except clause of answer_general_question (lines 319-328) and of
\* answer_document_question (lines 400-409)
ApiErrorDict(e) == ResultDict("error", Text(handle_api_error(e).message))

RagUnavailable == <<"D", "o", "c", "u", "m", "e", "n", "t", " ", "s", "e", "a", "r",
      "c", "h", " ", "i", "s", " ", "n", "o", "t", " ", "a", "v", "a",
      "i", "l", "a", "b", "l", "e", ".">>
NoRelevantInformation == <<"I", " ", "c", "o", "u", "l", "d", "n", "'", "t", " ", "f", "i",
      "n", "d", " ", "r", "e", "l", "e", "v", "a", "n", "t", " ", "i",
      "n", "f", "o", "r", "m", "a", "t", "i", "o", "n", " ", "i", "n",
      " ", "t", "h", "e", " ", "u", "p", "l", "o", "a", "d", "e", "d",
      " ", "d", "o", "c", "u", "m", "e", "n", "t", "s", ".">>
SourcesSuffix == <<"\n", "\n", "*", "*", "S", "o", "u", "r", "c", "e", "s", ":", "*", "*", " ", "a", ".", "t", "x", "t">>
CouldNotQueryPrefix == <<"I", " ", "c", "o", "u", "l", "d", "n", "'", "t", " ", "q", "u",
      "e", "r", "y", " ", "t", "h", "e", " ", "d", "a", "t", "a", "b",
      "a", "s", "e", " ", "d", "i", "r", "e", "c", "t", "l", "y", ",",
      " ", "b", "u", "t", " ", "h", "e", "r", "e", "'", "s", " ", "w",
      "h", "a", "t", " ", "I", " ", "k", "n", "o", "w", ":", "\n", "\n">>
ErrorExecutingPrefix == <<"E", "r", "r", "o", "r", " ", "e", "x", "e", "c", "u", "t", "i",
      "n", "g", " ", "q", "u", "e", "r", "y", ":", " ">>
TryRephrasing == <<"\n", "\n", "T", "r", "y", " ", "r", "e", "p", "h", "r", "a", "s",
      "i", "n", "g", " ", "y", "o", "u", "r", " ", "q", "u", "e", "s",
      "t", "i", "o", "n", ".">>
NoResultsFound == <<"N", "o", " ", "r", "e", "s", "u", "l", "t", "s", " ", "f", "o",
      "u", "n", "d", " ", "f", "o", "r", " ", "y", "o", "u", "r", " ",
      "q", "u", "e", "r", "y", ".">>
SingleValueAnswer == <<"*", "*", "R", "e", "s", "u", "l", "t", ":", "*", "*", " ", "7",
      " ", "e", "m", "p", "l", "o", "y", "e", "e", "s">>
EmployeeAnswer == <<"*", "*", "F", "o", "u", "n", "d", ":", "*", "*", " ", "A", "n", "n", " ", "L", "e", "e">>
FallbackAnswer == <<"*", "*", "F", "o", "u", "n", "d", " ", "2", " ", "r", "e", "s",
      "u", "l", "t", "(", "s", ")", ":", "*", "*">>
QueryGenerated == <<"Q", "u", "e", "r", "y", " ", "g", "e", "n", "e", "r", "a", "t",
      "e", "d", " ", "s", "u", "c", "c", "e", "s", "s", "f", "u", "l",
      "l", "y">>
ErrorGeneratingPrefix == <<"E", "r", "r", "o", "r", " ", "g", "e", "n", "e", "r", "a", "t",
      "i", "n", "g", " ", "S", "Q", "L", ":", " ">>
FailedToGenerate == <<"F", "a", "i", "l", "e", "d", " ", "t", "o", " ", "g", "e", "n",
      "e", "r", "a", "t", "e", " ", "v", "a", "l", "i", "d", " ", "S",
      "Q", "L", " ", "q", "u", "e", "r", "y">>
AllUnavailable == [type |-> "Exception", message |-> <<"A", "l", "l", " ", "G", "e", "m", "i", "n", "i", " ", "m", "o",
      "d", "e", "l", "s", " ", "a", "r", "e", " ", "u", "n", "a", "v",
      "a", "i", "l", "a", "b", "l", "e">>]

\* a context get_context_for_query found
SomeContext == <<"[", "F", "r", "o", "m", ":", " ", "a", ".", "t", "x", "t", "]",
      "\n", "P", "a", "y", " ", "i", "s", " ", "$", "9", ".">>

NoGemini == [status |-> "none", text |-> NoText, error |-> NoError]
NoGen == [status |-> "none", sql_query |-> NoText, message |-> <<>>]

NoAi == [pc |-> "idle", question_type |-> "none", ret |-> "none",
         model |-> 0, tried |-> <<>>, last_error |-> NoError,
         gemini |-> NoGemini, attempt |-> 0, gen |-> NoGen,
         sql_query |-> <<>>, fixed_sql |-> <<>>, executed |-> <<>>,
         results |-> "none", prefixed |-> FALSE, result |-> NoResult]

AiIdle == ai = NoAi

(***************************************************************************)
(* Chunker harness: chunk_text applied to every short text                 *)
(***************************************************************************)
ChunkAlphabet == {"a", ".", " "}

TextsUpTo(n) == UNION {[1..k -> ChunkAlphabet] : k \in 0..n}

InitChunk ==
    /\ ck_text \in TextsUpTo(MaxTextLen)
    /\ ck_size \in 0..MaxChunkSize
    /\ ck_overlap \in 0..MaxOverlap
    /\ ck_done = FALSE
    /\ ck_chunks = <<>>
    /\ SyIdle
    /\ StoreIdle
    /\ ai = NoAi

CallChunkText ==
    /\ ~ck_done
    /\ ck_chunks' = chunk_text(ck_text, ck_size, ck_overlap)
    /\ ck_done' = TRUE
    /\ UNCHANGED <<ck_text, ck_size, ck_overlap>>
    /\ UNCHANGED <<syVars, storeVars, aiVars>>

NextChunk == CallChunkText

SpecChunk == InitChunk /\ [][NextChunk]_vars

(***************************************************************************)
(* Synonym harness: expand_query_with_synonyms applied to every term of    *)
(* the synonym table and to some whole questions                           *)
(***************************************************************************)
SynonymTerms == DOMAIN HR_SYNONYMS \cup UNION {HR_SYNONYMS[k] : k \in DOMAIN HR_SYNONYMS}

InitSyn ==
    /\ sy_query \in SynonymTerms \cup {Q_PAY_ANALYSTS, Q_LEAVE, <<>>}
    /\ sy_done = FALSE
    /\ sy_expanded = {}
    /\ CkIdle
    /\ StoreIdle
    /\ ai = NoAi

CallExpandQuery ==
    /\ ~sy_done
    /\ sy_expanded' = expand_query_with_synonyms(sy_query)
    /\ sy_done' = TRUE
    /\ UNCHANGED sy_query
    /\ UNCHANGED <<ckVars, storeVars, aiVars>>

NextSyn == CallExpandQuery

SpecSyn == InitSyn /\ [][NextSyn]_vars

(***************************************************************************)
(* The document store: save_document and delete_document, step by step,    *)
(* with one reader that may run between any two steps of the writer        *)
(***************************************************************************)
DeleteArgs ==
    {compute_file_hash(c) : c \in Contents}
    \cup {compute_file_hash(C_TWO) \o <<"_", "a">>, <<"/", "a">>}

\* save_document(filename, content, metadata) is entered: the names are
\* computed (lines 178-186)
SaveCall(filename, content, metadata) ==
    /\ pc = "idle"
    /\ rd = NoRead
    /\ ncalls < MaxCalls
    /\ LET file_hash == compute_file_hash(content)
       IN /\ call' = [NoCall EXCEPT !.op = "save",
                                    !.status = "running",
                                    !.filename = filename,
                                    !.content = content,
                                    !.metadata = metadata,
                                    !.file_hash = file_hash,
                                    !.file_path = FilePath(file_hash, filename),
                                    !.pre = Persisted]
          /\ deleted' = deleted \ {file_hash}
    /\ prev_call' = Brief(call)
    /\ ncalls' = ncalls + 1
    /\ pc' = "save_open_raw"
    /\ UNCHANGED <<files, chunks_file, rd>>
    /\ UNCHANGED <<ckVars, syVars, aiVars>>

\* open(file_path, 'wb') creates or truncates the raw file (line 188)
SaveOpenRaw ==
    /\ pc = "save_open_raw"
    /\ rd = NoRead
    /\ files' = [n \in DOMAIN files \cup {call.file_path} |->
                    IF n = call.file_path THEN <<>> ELSE files[n]]
    /\ pc' = "save_write_raw"
    /\ UNCHANGED <<chunks_file, call, prev_call, ncalls, deleted, rd>>
    /\ UNCHANGED <<ckVars, syVars, aiVars>>

\* f.write(content) and the file is closed (line 189)
SaveWriteRaw ==
    /\ pc = "save_write_raw"
    /\ rd = NoRead
    /\ files' = [files EXCEPT ![call.file_path] = call.content]
    /\ pc' = "save_build"
    /\ UNCHANGED <<chunks_file, call, prev_call, ncalls, deleted, rd>>
    /\ UNCHANGED <<ckVars, syVars, aiVars>>

\* extraction, chunking, load of the mapping and the merge of the new
\* chunks into it (lines 191-220); an exception out of
\* extract_text_from_file would end the call
SaveBuild ==
    /\ pc = "save_build"
    /\ rd = NoRead
    /\ \E extracted \in extract_text_from_file(files, call.file_path, call.content, Suffix(call.filename)) :
          IF extracted.raised
          THEN /\ call' = [call EXCEPT !.status = "raised",
                                       !.extracted = extracted,
                                       !.post = Persisted]
               /\ pc' = "idle"
          ELSE LET file_ext == Suffix(call.filename)
                   text == extracted.text
                   chunks == chunk_text(text, DefaultChunkSize, DefaultOverlap)
                   all_chunks == load_all_chunks(chunks_file)
               IN /\ call' = [call EXCEPT
                                !.extracted = extracted,
                                !.chunks = chunks,
                                !.all_chunks =
                                    StoreChunks(all_chunks, chunks, 0,
                                                call.file_hash, call.filename,
                                                call.metadata),
                                !.doc_info =
                                    [id |-> call.file_hash,
                                     filename |-> call.filename,
                                     file_path |-> call.file_path,
                                     file_type |-> file_ext,
                                     metadata |-> OrEmptyDict(call.metadata),
                                     chunk_count |-> Len(chunks),
                                     total_chars |-> Len(text)]]
                  /\ pc' = "write_open"
    /\ UNCHANGED <<files, chunks_file, prev_call, ncalls, deleted, rd>>
    /\ UNCHANGED <<ckVars, syVars, aiVars>>

\* delete_document(doc_id) is entered: the mapping is loaded and the chunks
\* of the document are removed from it (lines 255-261)
DeleteCall(doc_id) ==
    /\ pc = "idle"
    /\ rd = NoRead
    /\ ncalls < MaxCalls
    /\ LET all_chunks == load_all_chunks(chunks_file)
           chunks_to_remove == ChunksToRemove(all_chunks, doc_id)
       IN call' = [NoCall EXCEPT
                     !.op = "delete",
                     !.status = "running",
                     !.doc_id = doc_id,
                     !.all_chunks = RemoveChunks(all_chunks, chunks_to_remove),
                     !.removed = Cardinality(chunks_to_remove),
                     !.pre = Persisted]
    /\ prev_call' = Brief(call)
    /\ ncalls' = ncalls + 1
    /\ pc' = "write_open"
    /\ UNCHANGED <<files, chunks_file, deleted, rd>>
    /\ UNCHANGED <<ckVars, syVars, aiVars>>

\* save_all_chunks: open(CHUNKS_FILE, 'w') truncates the file (line 241)
WriteOpen ==
    /\ pc = "write_open"
    /\ rd = NoRead
    /\ chunks_file' = [exists |-> TRUE, entries |-> <<>>, closed |-> FALSE]
    /\ pc' = "write_entries"
    /\ UNCHANGED <<files, call, prev_call, ncalls, deleted, rd>>
    /\ UNCHANGED <<ckVars, syVars, aiVars>>

\* save_all_chunks: json.dump writes the next entry of the mapping (line 242)
WriteEntry ==
    /\ pc = "write_entries"
    /\ rd = NoRead
    /\ Len(chunks_file.entries) < Len(call.all_chunks)
    /\ chunks_file' = [chunks_file EXCEPT
                         !.entries = Append(@, call.all_chunks[Len(@) + 1])]
    /\ UNCHANGED <<files, pc, call, prev_call, ncalls, deleted, rd>>
    /\ UNCHANGED <<ckVars, syVars, aiVars>>

\* save_all_chunks: the closing brace is written and the file is closed;
\* save_document then returns doc_info (line 225), delete_document goes on
\* to the raw files (line 266), where the glob may raise
WriteClose ==
    /\ pc = "write_entries"
    /\ rd = NoRead
    /\ Len(chunks_file.entries) = Len(call.all_chunks)
    /\ chunks_file' = [chunks_file EXCEPT !.closed = TRUE]
    /\ IF call.op = "save" \/ GlobRaises(call.doc_id)
       THEN /\ pc' = "idle"
            /\ call' = [call EXCEPT
                          !.status = IF call.op = "save" THEN "returned"
                                     ELSE "raised",
                          !.post = [mapping |-> load_all_chunks(chunks_file'),
                                    files |-> files]]
       ELSE /\ pc' = "delete_unlink"
            /\ call' = [call EXCEPT
                          !.to_unlink = GlobDocFiles(files, call.doc_id)]
    /\ UNCHANGED <<files, prev_call, ncalls, deleted, rd>>
    /\ UNCHANGED <<ckVars, syVars, aiVars>>

\* delete_document: file.unlink() of one globbed file (lines 266-268)
DeleteUnlink ==
    /\ pc = "delete_unlink"
    /\ rd = NoRead
    /\ \E name \in call.to_unlink :
          /\ files' = [n \in DOMAIN files \ {name} |-> files[n]]
          /\ call' = [call EXCEPT !.to_unlink = @ \ {name}]
    /\ UNCHANGED <<chunks_file, pc, prev_call, ncalls, deleted, rd>>
    /\ UNCHANGED <<ckVars, syVars, aiVars>>

\* delete_document returns len(chunks_to_remove) > 0 (line 272)
DeleteReturn ==
    /\ pc = "delete_unlink"
    /\ rd = NoRead
    /\ call.to_unlink = {}
    /\ pc' = "idle"
    /\ call' = [call EXCEPT !.status = "returned",
                            !.result = (call.removed > 0),
                            !.post = Persisted]
    /\ deleted' = deleted \cup {call.doc_id}
    /\ UNCHANGED <<files, chunks_file, prev_call, ncalls, rd>>
    /\ UNCHANGED <<ckVars, syVars, aiVars>>

\* an I/O error (or a value json cannot serialise) ends the running call
\* with an exception; whatever was written so far stays on disk
Raise ==
    /\ pc \in {"save_open_raw", "save_write_raw", "save_build",
               "write_open", "write_entries"}
    /\ rd = NoRead
    /\ pc' = "idle"
    /\ call' = [call EXCEPT !.status = "raised", !.post = Persisted]
    /\ UNCHANGED <<files, chunks_file, prev_call, ncalls, deleted, rd>>
    /\ UNCHANGED <<ckVars, syVars, aiVars>>

\* delete_document: file.unlink() fails and the error is swallowed
\* (lines 269-270)
DeleteUnlinkFails ==
    /\ pc = "delete_unlink"
    /\ rd = NoRead
    /\ \E name \in call.to_unlink :
          call' = [call EXCEPT !.to_unlink = @ \ {name}]
    /\ UNCHANGED <<files, chunks_file, pc, prev_call, ncalls, deleted, rd>>
    /\ UNCHANGED <<ckVars, syVars, aiVars>>

\* the mapping a reader should find while a write is between truncation
\* and close: the one before the write, or the one being written
WriteInProgress == pc = "write_entries"

\* what a reader call returns, with the mapping it loaded and the two
\* mappings it may rightly see
Observation(op, query, top_k, hits, docs, has) ==
    [op |-> op, query |-> query, top_k |-> top_k,
     hits |-> hits, docs |-> docs, has |-> has,
     seen |-> load_all_chunks(chunks_file),
     before |-> IF WriteInProgress THEN call.pre.mapping
                ELSE load_all_chunks(chunks_file),
     after |-> IF WriteInProgress THEN call.all_chunks
               ELSE load_all_chunks(chunks_file),
     max_chars |-> 0, parts |-> <<>>, context |-> <<>>,
     extracted |-> NoExtract]

\* a reader calls simple_search(query, top_k)
ReadSearch(query, top_k) ==
    /\ rd = NoRead
    /\ rd' = Observation("simple_search", query, top_k,
                         simple_search(chunks_file, query, top_k), <<>>, FALSE)
    /\ UNCHANGED <<files, chunks_file, pc, call, prev_call, ncalls, deleted>>
    /\ UNCHANGED <<ckVars, syVars, aiVars>>

\* a reader calls get_all_documents
ReadDocuments ==
    /\ rd = NoRead
    /\ rd' = Observation("get_all_documents", <<>>, 0, <<>>,
                         get_all_documents(chunks_file), FALSE)
    /\ UNCHANGED <<files, chunks_file, pc, call, prev_call, ncalls, deleted>>
    /\ UNCHANGED <<ckVars, syVars, aiVars>>

\* a reader calls has_uploaded_documents
ReadHasDocuments ==
    /\ rd = NoRead
    /\ rd' = Observation("has_uploaded_documents", <<>>, 0, <<>>, <<>>,
                         has_uploaded_documents(chunks_file))
    /\ UNCHANGED <<files, chunks_file, pc, call, prev_call, ncalls, deleted>>
    /\ UNCHANGED <<ckVars, syVars, aiVars>>

\* a reader calls semantic_search_with_gemini(query, top_k)
ReadSemantic(query, top_k) ==
    /\ rd = NoRead
    /\ \E results \in semantic_search_with_gemini(chunks_file, query, top_k) :
          rd' = Observation("semantic_search_with_gemini", query, top_k,
                            results, <<>>, FALSE)
    /\ UNCHANGED <<files, chunks_file, pc, call, prev_call, ncalls, deleted>>
    /\ UNCHANGED <<ckVars, syVars, aiVars>>

\* a reader calls get_context_for_query(query, max_chunks, max_chars)
ReadContext(query, max_chunks, max_chars) ==
    /\ rd = NoRead
    /\ \E results \in semantic_search_with_gemini(chunks_file, query, max_chunks) :
          rd' = [Observation("get_context_for_query", query, max_chunks,
                             results, <<>>, FALSE)
                    EXCEPT !.max_chars = max_chars,
                           !.parts = IF results = <<>> THEN <<>>
                                     ELSE ContextParts(results, 1, 0, max_chars),
                           !.context = AssembleContext(results, max_chars)]
    /\ UNCHANGED <<files, chunks_file, pc, call, prev_call, ncalls, deleted>>
    /\ UNCHANGED <<ckVars, syVars, aiVars>>

\* a caller calls extract_text_from_file(file_path, file_content, file_type)
ReadExtract(file_path, file_content, file_type) ==
    /\ rd = NoRead
    /\ \E extracted \in extract_text_from_file(files, file_path, file_content, file_type) :
          rd' = [Observation("extract_text_from_file", file_content, 0,
                             <<>>, <<>>, FALSE)
                    EXCEPT !.extracted = extracted]
    /\ UNCHANGED <<files, chunks_file, pc, call, prev_call, ncalls, deleted>>
    /\ UNCHANGED <<ckVars, syVars, aiVars>>

\* the reader's caller has consumed the result
ReadReturn ==
    /\ rd # NoRead
    /\ rd' = NoRead
    /\ UNCHANGED <<files, chunks_file, pc, call, prev_call, ncalls, deleted>>
    /\ UNCHANGED <<ckVars, syVars, aiVars>>

Init == CkIdle /\ SyIdle /\ StoreIdle /\ ai = NoAi

Next ==
    \/ \E u \in Uploads : SaveCall(u[1], u[2], u[3])
    \/ SaveOpenRaw
    \/ SaveWriteRaw
    \/ SaveBuild
    \/ \E doc_id \in DeleteArgs : DeleteCall(doc_id)
    \/ WriteOpen
    \/ WriteEntry
    \/ WriteClose
    \/ DeleteUnlink
    \/ DeleteReturn
    \/ \E query \in Queries, top_k \in TopKs : ReadSearch(query, top_k)
    \/ ReadDocuments
    \/ ReadHasDocuments
    \/ ReadReturn

Spec == Init /\ [][Next]_vars

\* the same store with I/O failures
NextFaults ==
    \/ Next
    \/ Raise
    \/ DeleteUnlinkFails

SpecFaults == Init /\ [][NextFaults]_vars

(***************************************************************************)
(* Extraction harness: uploads of every file type, and direct calls of     *)
(* extract_text_from_file                                                  *)
(***************************************************************************)
FN_PDF == <<"r", ".", "p", "d", "f">>
FN_BIN == <<"r", ".", "b", "i", "n">>
FN_MISSING == <<"m", ".", "t", "x", "t">>

ExtractUploads == {<<FN_PDF, C_ONE, NoMetadata>>,
                   <<FN_BIN, C_BAD, NoMetadata>>,
                   <<FN_A, C_EMPTY, NoMetadata>>}

\* the file paths, payloads and file types of the direct calls; a call
\* without file_type takes the suffix of the path (lines 36-37)
ExtractPaths == {FN_MISSING, FilePath(compute_file_hash(C_EMPTY), FN_A)}
ExtractPayloads == {C_EMPTY, C_BAD}
ExtractTypes(file_path) == {Suffix(file_path), PDF_TYPE, <<".", "d", "o", "c">>}

NextExtract ==
    \/ \E u \in ExtractUploads : SaveCall(u[1], u[2], u[3])
    \/ SaveOpenRaw
    \/ SaveWriteRaw
    \/ SaveBuild
    \/ WriteOpen
    \/ WriteEntry
    \/ WriteClose
    \/ \E file_path \in ExtractPaths, file_content \in ExtractPayloads : \E file_type \in ExtractTypes(file_path) : ReadExtract(file_path, file_content, file_type)
    \/ ReadReturn

SpecExtract == Init /\ [][NextExtract]_vars

(***************************************************************************)
(* Re-upload harness: the same bytes uploaded as a text file and as a PDF, *)
(* deleted and listed                                                      *)
(***************************************************************************)
FN_A_PDF == <<"a", ".", "p", "d", "f">>

ReUploads == {<<FN_A, C_TWO, MD_POLICY>>,
              <<FN_A_PDF, C_TWO, NoMetadata>>}

NextReupload ==
    \/ \E u \in ReUploads : SaveCall(u[1], u[2], u[3])
    \/ SaveOpenRaw
    \/ SaveWriteRaw
    \/ SaveBuild
    \/ \E doc_id \in {compute_file_hash(C_TWO)} : DeleteCall(doc_id)
    \/ WriteOpen
    \/ WriteEntry
    \/ WriteClose
    \/ DeleteUnlink
    \/ DeleteReturn
    \/ ReadDocuments
    \/ ReadReturn

SpecReupload == Init /\ [][NextReupload]_vars

(***************************************************************************)
(* Search harness: the readers applied to stores that hold the harness     *)
(* documents                                                               *)
(***************************************************************************)
MaxDocs == 2           \* documents in a store of the search harness

MaxChunksTried == {0, 1, 3}
MaxCharsTried == {0, 10, 30, 60, 70, 200}

\* the lists of up to n pairwise distinct harness documents
DocSeqs(n) ==
    UNION {{ds \in [1..k -> SearchDocs] :
               \A a, b \in 1..k : a # b => ds[a] # ds[b]} : k \in 0..n}

\* the bytes of a harness document
ContentOf(d) == Join(d.chunks)

\* the mapping after the documents ds were stored one after the other
RECURSIVE MappingOf(_)
MappingOf(ds) ==
    IF ds = <<>> THEN <<>>
    ELSE LET d == ds[Len(ds)]
         IN StoreChunks(MappingOf(FirstN(ds, Len(ds) - 1)), d.chunks, 0,
                        compute_file_hash(ContentOf(d)), d.filename, NoMetadata)

\* their raw files
RawFilesOf(ds) ==
    LET names == {FilePath(compute_file_hash(ContentOf(ds[i])), ds[i].filename) :
                     i \in 1..Len(ds)}
    IN [n \in names |->
           ContentOf(CHOOSE d \in Range(ds) :
                        FilePath(compute_file_hash(ContentOf(d)), d.filename) = n)]

\* the chunk file is complete, or absent before the first upload, or left
\* cut short by an interrupted rewrite
InitSearch ==
    /\ \E ds \in DocSeqs(MaxDocs) :
          /\ files = RawFilesOf(ds)
          /\ chunks_file \in
                {FileOf(MappingOf(ds))}
                \cup (IF ds = <<>> THEN {NoChunksFile}
                      ELSE {[exists |-> TRUE, entries |-> <<>>, closed |-> FALSE]})
    /\ pc = "idle"
    /\ call = NoCall
    /\ prev_call = Brief(NoCall)
    /\ ncalls = 0
    /\ deleted = {}
    /\ rd = NoRead
    /\ CkIdle
    /\ SyIdle
    /\ ai = NoAi

NextSearch ==
    \/ \E query \in SearchQueries, top_k \in SearchTopKs : ReadSearch(query, top_k)
    \/ \E query \in SearchQueries, top_k \in MaxChunksTried : ReadSemantic(query, top_k)
    \/ \E query \in SearchQueries, max_chunks \in MaxChunksTried, max_chars \in MaxCharsTried : ReadContext(query, max_chunks, max_chars)
    \/ ReadDocuments
    \/ ReadHasDocuments
    \/ ReadReturn

SpecSearch == InitSearch /\ [][NextSearch]_vars

(***************************************************************************)
(* Recovery harness: the store starts with a chunk file that an            *)
(* interrupted rewrite left unparsable                                     *)
(***************************************************************************)
\* the chunk file exists and json.load fails on it
Unparsable(file) == file.exists /\ JsonLoad(file).kind = "Exception"

RecoveryUploads == {<<FN_A, C_ONE, NoMetadata>>, <<FN_AB, C_TWO, MD_POLICY>>}

\* one harness document was stored, and the rewrite of the chunk file
\* stopped after k of its entries
InitRecovery ==
    /\ \E ds \in DocSeqs(1) \ {<<>>} :
          /\ files = RawFilesOf(ds)
          /\ \E k \in 0..Len(MappingOf(ds)) :
                 chunks_file = [exists |-> TRUE,
                                entries |-> FirstN(MappingOf(ds), k),
                                closed |-> FALSE]
    /\ pc = "idle"
    /\ call = NoCall
    /\ prev_call = Brief(NoCall)
    /\ ncalls = 0
    /\ deleted = {}
    /\ rd = NoRead
    /\ CkIdle
    /\ SyIdle
    /\ ai = NoAi

NextRecovery ==
    \/ \E u \in RecoveryUploads : SaveCall(u[1], u[2], u[3])
    \/ SaveOpenRaw
    \/ SaveWriteRaw
    \/ SaveBuild
    \/ WriteOpen
    \/ WriteEntry
    \/ WriteClose
    \/ \E query \in Queries, top_k \in TopKs : ReadSearch(query, top_k)
    \/ ReadDocuments
    \/ ReadHasDocuments
    \/ ReadReturn

SpecRecovery == InitRecovery /\ [][NextRecovery]_vars

(***************************************************************************)
(* The steps of the assistant                                              *)
(***************************************************************************)
\* call_gemini_with_fallback(client, prompt) is entered by the caller ret
EnterGemini(a, ret) ==
    [a EXCEPT !.pc = "gemini", !.ret = ret, !.model = 1, !.tried = <<>>,
              !.last_error = NoError, !.gemini = NoGemini]

\* answer_hr_question returns
Finish(a, dict) == [a EXCEPT !.pc = "done", !.result = dict]

\* answer_general_question returns to answer_hr_question, which returns the
\* dict (lines 427 and 434) or puts its remark before the answer (line 455)
FinishGeneral(a, dict) ==
    Finish(a, IF a.prefixed
              THEN [dict EXCEPT !.answer = Text(CouldNotQueryPrefix \o dict.answer.text)]
              ELSE dict)

\* generate_sql_query returns (sql_query, message)
FinishGenerate(a, sql_query, message) ==
    [a EXCEPT !.pc = "generated",
              !.gen = [status |-> "returned", sql_query |-> sql_query, message |-> message]]

\* answer_hr_question(user_question) classifies the question (lines 417-427)
AskQuestion ==
    /\ ai.pc = "idle"
    /\ \E outcome \in {"document", "general", "database", "raise"} :
          ai' = IF outcome = "raise"
                THEN Finish([ai EXCEPT !.question_type = "raise"], UnexpectedError(E_KEY))
                ELSE [ai EXCEPT !.question_type = outcome,
                                !.pc = CASE outcome = "document" -> "document"
                                         [] outcome = "general" -> "general"
                                         [] outcome = "database" -> "generate"]
    /\ UNCHANGED <<ckVars, syVars, storeVars>>

\* one turn of the loop over GEMINI_MODELS (lines 117-131)
TryModel ==
    /\ ai.pc = "gemini"
    /\ ai.model <= Len(GEMINI_MODELS)
    /\ \E outcome \in GenerateContentOutcomes :
          LET tried == Append(ai.tried, [model |-> GEMINI_MODELS[ai.model], outcome |-> outcome])
          IN ai' = IF outcome.kind = "response"
                   THEN [ai EXCEPT !.tried = tried, !.pc = "gemini_done",
                                   !.gemini = [status |-> "returned", text |-> outcome.text, error |-> NoError]]
                   ELSE IF OnModelError(outcome.error) = "continue"
                   THEN [ai EXCEPT !.tried = tried, !.last_error = outcome.error,
                                   !.model = ai.model + 1]
                   ELSE [ai EXCEPT !.tried = tried, !.pc = "gemini_done",
                                   !.gemini = [status |-> "raised", text |-> NoText, error |-> outcome.error]]
    /\ UNCHANGED <<ckVars, syVars, storeVars>>

\* the loop is over: every model was rate-limited (lines 133-136)
AllModelsFailed ==
    /\ ai.pc = "gemini"
    /\ ai.model > Len(GEMINI_MODELS)
    /\ ai' = [ai EXCEPT !.pc = "gemini_done",
                        !.gemini = [status |-> "raised", text |-> NoText,
                                    error |-> IF ai.last_error # NoError THEN ai.last_error
                                              ELSE AllUnavailable]]
    /\ UNCHANGED <<ckVars, syVars, storeVars>>

\* answer_general_question gets its client and calls the models
\* (lines 297-309)
AnswerGeneral ==
    /\ ai.pc = "general"
    /\ \E has_key \in BOOLEAN :
          ai' = IF has_key THEN EnterGemini(ai, "general")
                ELSE FinishGeneral(ai, ApiErrorDict(E_NO_KEY))
    /\ UNCHANGED <<ckVars, syVars, storeVars>>

\* answer_general_question after the call (lines 309-328)
GeneralResponse ==
    /\ ai.pc = "gemini_done" /\ ai.ret = "general"
    /\ ai' = IF ai.gemini.status = "raised" THEN FinishGeneral(ai, ApiErrorDict(ai.gemini.error))
             ELSE IF ai.gemini.text.isNone THEN FinishGeneral(ai, ApiErrorDict(E_NONE_STRIP))
             ELSE FinishGeneral(ai, ResultDict("success", Text(Strip(ai.gemini.text.text))))
    /\ UNCHANGED <<ckVars, syVars, storeVars>>

\* answer_document_question up to its call of the models (lines 341-381)
AnswerDocument ==
    /\ ai.pc = "document"
    /\ \E rag_available \in BOOLEAN, raises \in BOOLEAN, context \in {<<>>, SomeContext}, has_key \in BOOLEAN :
          ai' = IF ~rag_available THEN Finish(ai, ResultDict("error", Text(RagUnavailable)))
                ELSE IF raises THEN Finish(ai, ApiErrorDict(E_KEY))
                ELSE IF AnswerBranch(context) = "no_relevant_information"
                THEN Finish(ai, ResultDict("success", Text(NoRelevantInformation)))
                ELSE IF ~has_key THEN Finish(ai, ApiErrorDict(E_NO_KEY))
                ELSE EnterGemini(ai, "document")
    /\ UNCHANGED <<ckVars, syVars, storeVars>>

\* answer_document_question after the call: the sources are looked up and
\* the answer is put together (lines 381-409)
DocumentResponse ==
    /\ ai.pc = "gemini_done" /\ ai.ret = "document"
    /\ \E search \in {"raise", "no_sources", "sources"} :
          ai' = IF ai.gemini.status = "raised" THEN Finish(ai, ApiErrorDict(ai.gemini.error))
                ELSE IF search = "raise" THEN Finish(ai, ApiErrorDict(E_KEY))
                ELSE IF ai.gemini.text.isNone THEN Finish(ai, ApiErrorDict(E_NONE_STRIP))
                ELSE Finish(ai, ResultDict("success",
                         Text(Strip(ai.gemini.text.text)
                              \o (IF search = "sources" THEN SourcesSuffix ELSE <<>>))))
    /\ UNCHANGED <<ckVars, syVars, storeVars>>

\* generate_sql_query gets its client and the schema and starts the first
\* attempt (lines 219-256, 288-290)
GenerateSql ==
    /\ ai.pc = "generate"
    /\ \E has_key \in BOOLEAN :
          ai' = IF has_key THEN [EnterGemini(ai, "gen") EXCEPT !.attempt = 0]
                ELSE FinishGenerate(ai, NoText, handle_api_error(E_NO_KEY).message)
    /\ UNCHANGED <<ckVars, syVars, storeVars>>

\* the except clause of an attempt (lines 277-284)
AttemptFailed(a, retry_error) ==
    IF handle_api_error(retry_error).is_rate_limit
    THEN FinishGenerate(a, NoText, handle_api_error(retry_error).message)
    ELSE IF a.attempt = max_retries - 1
    THEN FinishGenerate(a, NoText, ErrorGeneratingPrefix \o retry_error.message)
    ELSE [EnterGemini(a, "gen") EXCEPT !.attempt = a.attempt + 1]

\* the text of an attempt is cleaned and tested (lines 258-275, 286)
AttemptAnswered(a, sql_query) ==
    IF StartsWithSelect(sql_query)
    THEN FinishGenerate(a, Text(sql_query), QueryGenerated)
    ELSE IF a.attempt = max_retries - 1
    THEN FinishGenerate(a, NoText, FailedToGenerate)
    ELSE [EnterGemini(a, "gen") EXCEPT !.attempt = a.attempt + 1]

\* generate_sql_query after the call of one attempt (lines 256-286)
GenerateResponse ==
    /\ ai.pc = "gemini_done" /\ ai.ret = "gen"
    /\ ai' = IF ai.gemini.status = "raised" THEN AttemptFailed(ai, ai.gemini.error)
             ELSE IF ai.gemini.text.isNone THEN AttemptFailed(ai, E_NONE_STRIP)
             ELSE AttemptAnswered(ai, CleanedResponses[ai.gemini.text.text])
    /\ UNCHANGED <<ckVars, syVars, storeVars>>

\* answer_hr_question has the result of generate_sql_query (lines 430-434)
AfterGenerate ==
    /\ ai.pc = "generated"
    /\ ai' = IF ai.gen.sql_query.isNone THEN [ai EXCEPT !.pc = "general"]
             ELSE [ai EXCEPT !.pc = "execute", !.sql_query = ai.gen.sql_query.text]
    /\ UNCHANGED <<ckVars, syVars, storeVars>>

\* execute_query(sql_query) (lines 437-463)
ExecuteQuery ==
    /\ ai.pc = "execute"
    /\ \E outcome \in ExecuteOutcomes :
          LET ran == [ai EXCEPT !.executed = Append(@, ai.sql_query)]
          IN ai' = IF outcome.kind = "rows"
                   THEN [ran EXCEPT !.pc = "format", !.results = outcome.shape]
                   ELSE IF \/ Contains(<<"u", "n", "r", "e", "c", "o", "g", "n", "i", "z", "e", "d", " ", "t", "o", "k", "e", "n">>, outcome.error.message)
                           \/ Contains(<<"s", "y", "n", "t", "a", "x", " ", "e", "r", "r", "o", "r">>, outcome.error.message)
                   THEN [ran EXCEPT !.pc = "execute_fixed",
                                    !.fixed_sql = fix_sql_quotes(ai.sql_query)]
                   ELSE Finish(ran, ResultDict("error",
                            Text(ErrorExecutingPrefix \o outcome.error.message \o TryRephrasing)))
    /\ UNCHANGED <<ckVars, syVars, storeVars>>

\* execute_query(fixed_sql) (lines 447-456)
ExecuteFixed ==
    /\ ai.pc = "execute_fixed"
    /\ \E outcome \in ExecuteOutcomes :
          LET ran == [ai EXCEPT !.executed = Append(@, ai.fixed_sql)]
          IN ai' = IF outcome.kind = "rows"
                   THEN [ran EXCEPT !.pc = "format", !.results = outcome.shape,
                                    !.sql_query = ai.fixed_sql]
                   ELSE [ran EXCEPT !.pc = "general", !.prefixed = TRUE]
    /\ UNCHANGED <<ckVars, syVars, storeVars>>

\* the answer is formatted (lines 465-481; format_answer, lines 496-534)
FormatAnswer ==
    /\ ai.pc = "format"
    /\ \E has_key \in BOOLEAN :
          ai' = CASE ai.results = "empty" -> Finish(ai, ResultDict("success", Text(NoResultsFound)))
                  [] ai.results = "count" -> Finish(ai, ResultDict("success", Text(SingleValueAnswer)))
                  [] ai.results = "employee" -> Finish(ai, ResultDict("success", Text(EmployeeAnswer)))
                  [] ai.results = "table" ->
                        IF has_key THEN EnterGemini(ai, "format")
                        ELSE Finish(ai, ResultDict("success", Text(FallbackAnswer)))
    /\ UNCHANGED <<ckVars, syVars, storeVars>>

\* format_answer after the call (lines 534-549)
FormatResponse ==
    /\ ai.pc = "gemini_done" /\ ai.ret = "format"
    /\ ai' = IF ai.gemini.status = "raised" \/ ai.gemini.text.isNone
             THEN Finish(ai, ResultDict("success", Text(FallbackAnswer)))
             ELSE Finish(ai, ResultDict("success", Text(Strip(ai.gemini.text.text))))
    /\ UNCHANGED <<ckVars, syVars, storeVars>>

InitAssistant == CkIdle /\ SyIdle /\ StoreIdle /\ AiIdle

NextAssistant ==
    \/ AskQuestion
    \/ TryModel
    \/ AllModelsFailed
    \/ AnswerGeneral
    \/ GeneralResponse
    \/ AnswerDocument
    \/ DocumentResponse
    \/ GenerateSql
    \/ GenerateResponse
    \/ AfterGenerate
    \/ ExecuteQuery
    \/ ExecuteFixed
    \/ FormatAnswer
    \/ FormatResponse

SpecAssistant == InitAssistant /\ [][NextAssistant]_vars

\* the same, with the program going on while it has a step to take: every
\* step is a call that returns or raises
SpecAssistantLive == InitAssistant /\ [][NextAssistant]_vars /\ WF_vars(NextAssistant)

(***************************************************************************)
(* Properties of the document store (checked under Spec and SpecFaults)    *)
(***************************************************************************)
\* the doc ids among the results of simple_search(query, top_k)
HitDocs(file, query, top_k) ==
    {h.doc_id : h \in Range(simple_search(file, query, top_k))}

\* the ids get_all_documents lists
ListedDocs(file) == {d.id : d \in Range(get_all_documents(file))}

\* the keys of the records of document doc_id in the mapping m
KeysOfDoc(m, doc_id) ==
    {m[i].key : i \in {k \in 1..Len(m) : m[k].val.doc_id = doc_id}}

\* C1: once delete_document(doc_id) has completed and the same content has
\* not been uploaded again, no simple_search result has that doc_id, for
\* every query and top_k, and get_all_documents does not list it.
C1_DeletionCompleteness ==
    \A doc_id \in deleted :
        /\ \A query \in Queries, top_k \in TopKs :
               doc_id \notin HitDocs(chunks_file, query, top_k)
        /\ doc_id \notin ListedDocs(chunks_file)
        /\ doc_id \notin {h.doc_id : h \in Range(rd.hits)}
        /\ doc_id \notin {d.id : d \in Range(rd.docs)}

C1_Witness ==
    /\ pc = "idle"
    /\ call.op = "delete" /\ call.status = "returned"
    /\ call.removed > 1
    /\ call.doc_id \in deleted
    /\ \E query \in Queries, top_k \in TopKs :
          call.doc_id \in HitDocs(FileOf(call.pre.mapping), query, top_k)
    /\ call.doc_id \in ListedDocs(FileOf(call.pre.mapping))
    /\ rd.op = "simple_search" /\ rd.hits # <<>>

\* save_document has returned, and the call before it was a save_document
\* of the same bytes under another filename
SecondUploadOfSameContent ==
    /\ call.op = "save" /\ call.status = "returned"
    /\ prev_call.op = "save" /\ prev_call.status = "returned"
    /\ prev_call.content = call.content
    /\ prev_call.filename # call.filename

C3_PutAllOrNothing ==
    (call.op = "save" /\ call.status = "raised") =>
        LET before == call.pre.mapping
            now == load_all_chunks(chunks_file)
        IN /\ DictKeys(before) \subseteq DictKeys(now)
           /\ KeysOfDoc(now, call.file_hash) \in
                 {{}, KeysOfDoc(before, call.file_hash),
                  KeysOfDoc(call.all_chunks, call.file_hash)}

\* C4: a reader that runs while a writer is at work loads either the whole
\* mapping from before the write or the whole mapping after it.
C4_ReaderAtomicity ==
    rd # NoRead => rd.seen \in {rd.before, rd.after}

\* a raw file of document doc_id is stored: a file named doc_id, '_' and
\* the sanitised upload name
HasBackingFile(disk, doc_id) ==
    \E name \in DOMAIN disk :
        /\ Len(name) > Len(doc_id)
        /\ FirstN(name, Len(doc_id) + 1) = doc_id \o <<"_">>

\* C5: in every state, inside the calls too, every chunk record of the
\* persisted mapping has a doc_id whose raw file is stored.
C5_ReferentialInvariant ==
    LET mapping == load_all_chunks(chunks_file)
    IN \A i \in 1..Len(mapping) : HasBackingFile(files, mapping[i].val.doc_id)

(***************************************************************************)
(* Properties of chunk_text (checked under SpecChunk)                      *)
(***************************************************************************)
RECURSIVE Flatten(_)
Flatten(seqs) == IF seqs = <<>> THEN <<>> ELSE Head(seqs) \o Flatten(Tail(seqs))

WordsOfChunk(i) == Split(ck_chunks[i])

\* number of leading words of chunk i that were copied from chunk i - 1
SeedCount(i) ==
    IF i = 1 \/ ck_overlap = 0 THEN 0
    ELSE IF ck_overlap <= Len(WordsOfChunk(i - 1)) THEN ck_overlap
    ELSE Len(WordsOfChunk(i - 1))

BlankText == \A i \in 1..Len(ck_text) : IsSpace(ck_text[i])

\* C6: chunk_text of an empty or whitespace-only text returns the empty
\* list, for every chunk_size and overlap.
C6_BlankTextYieldsNoChunk ==
    (ck_done /\ BlankText) => ck_chunks = <<>>

\* C7: dropping from every chunk after the first the words seeded from its
\* predecessor and concatenating the rest gives exactly the words of the
\* text, in order.
C7_Coverage ==
    ck_done =>
        Flatten([i \in 1..Len(ck_chunks) |->
                    LET w == WordsOfChunk(i)
                    IN SubSeq(w, SeedCount(i) + 1, Len(w))])
        = Split(ck_text)

C7_Witness ==
    /\ ck_done
    /\ Len(ck_chunks) >= 3
    /\ SeedCount(2) = 2
    /\ Len(WordsOfChunk(2)) > ck_size

\* C8: with overlap > 0 every chunk after the first begins with exactly the
\* last min(overlap, words of the previous chunk) words of the previous chunk.
C8_OverlapBound ==
    (ck_done /\ ck_overlap > 0) =>
        \A i \in 2..Len(ck_chunks) :
            LET p == WordsOfChunk(i - 1)
                w == WordsOfChunk(i)
                n == SeedCount(i)
            IN /\ n <= Len(w)
               /\ SubSeq(w, 1, n) = SubSeq(p, Len(p) - n + 1, Len(p))

C8_Witness ==
    /\ ck_done
    /\ ck_overlap = 2
    /\ Len(ck_chunks) >= 3
    /\ Len(WordsOfChunk(1)) = 1
    /\ WordsOfChunk(2)[1] # WordsOfChunk(2)[2]
    /\ WordsOfChunk(3)[1] # WordsOfChunk(3)[2]

\* the text has no '.', '!' or '?' that is followed by whitespace
NoSentenceBreak ==
    LET t == Strip(CollapseWs(ck_text))
    IN \A i \in 2..Len(t) : ~(IsSpace(t[i]) /\ t[i - 1] \in SentenceEnd)

\* C9: a text without sentence breaks and with more than chunk_size words
\* is cut into fixed-width word windows: every chunk has at most chunk_size
\* words and window i starts (i - 1) * (chunk_size - overlap) words in.
C9_FallbackWindows ==
    (/\ ck_done
     /\ NoSentenceBreak
     /\ ck_size > ck_overlap
     /\ Len(Split(ck_text)) > ck_size) =>
        LET words == Split(ck_text)
            step == ck_size - ck_overlap
        IN \A i \in 1..Len(ck_chunks) :
              /\ Len(WordsOfChunk(i)) <= ck_size
              /\ (i - 1) * step < Len(words)
              /\ WordsOfChunk(i) =
                     SubSeq(words, (i - 1) * step + 1,
                            IF (i - 1) * step + ck_size > Len(words)
                            THEN Len(words) ELSE (i - 1) * step + ck_size)

(***************************************************************************)
(* Properties of expand_query_with_synonyms (checked under SpecSyn)        *)
(***************************************************************************)
\* C10: expanding a key of the synonym table yields every synonym listed
\* under it, and expanding a synonym listed under a key k yields k and all
\* synonyms listed under k.
C10_SynonymSymmetry ==
    sy_done =>
        /\ (sy_query \in DOMAIN HR_SYNONYMS =>
                HR_SYNONYMS[sy_query] \subseteq sy_expanded)
        /\ \A k \in DOMAIN HR_SYNONYMS :
                sy_query \in HR_SYNONYMS[k] =>
                    ({k} \cup HR_SYNONYMS[k]) \subseteq sy_expanded

(***************************************************************************)
(* Properties of retrieval (checked under SpecSearch)                      *)
(***************************************************************************)
\* the score lines 393-461 compute for a stored text, not looked up
ComputedScore(query, text) ==
    ChunkScore(query, expand_query_with_synonyms(query), QueryWords(query), text)

\* the positions of the mapping m whose chunk scores above 0 for the query
ScoringPositions(m, query) ==
    {i \in 1..Len(m) : ComputedScore(query, m[i].val.text) > 0}

\* C11: for every store, query and top_k >= 0 the list simple_search
\* returns (a) holds only stored chunks whose computed score is above 0,
\* (b) has its scores in non-increasing order, (c) has min(top_k, number of
\* stored chunks scoring above 0) elements, and (d) leaves out no stored
\* chunk that scores above the lowest returned score.
C11_SearchResultContract ==
    rd.op = "simple_search" =>
        LET hits == rd.hits
            m == rd.seen
            scoring == ScoringPositions(m, rd.query)
            returned == {hits[k].chunk_id : k \in 1..Len(hits)}
        IN /\ \A k \in 1..Len(hits) :
                  \E i \in scoring :
                      /\ m[i].key = hits[k].chunk_id
                      /\ m[i].val.text = hits[k].text
                      /\ m[i].val.doc_id = hits[k].doc_id
                      /\ hits[k].score = ComputedScore(rd.query, m[i].val.text)
                      /\ hits[k].score > 0
           /\ \A k \in 1..(Len(hits) - 1) : hits[k].score >= hits[k + 1].score
           /\ Len(hits) = Min({rd.top_k, Cardinality(scoring)})
           /\ Cardinality(returned) = Len(hits)
           /\ hits # <<>> =>
                  \A i \in scoring :
                      m[i].key \notin returned =>
                          ComputedScore(rd.query, m[i].val.text)
                              <= hits[Len(hits)].score

\* a search that returned two chunks with different scores and left a
\* third scoring chunk out
C11_Witness ==
    /\ rd.op = "simple_search"
    /\ rd.top_k = 2
    /\ Len(rd.hits) = 2
    /\ rd.hits[1].score > rd.hits[2].score
    /\ Cardinality(ScoringPositions(rd.seen, rd.query)) > 2

\* the query is a compensation query (line 428)
IsCompensationQuery(query) == QueryWords(query) \cap CompensationWords # {}

\* what the expanded terms add to the score of a text (lines 402-424)
TermHits(query, text) ==
    TermScore(expand_query_with_synonyms(query), Lower(text),
              Range(FindWords(Lower(text))), QueryWords(query))

\* the texts of the results
HitTexts(hits) == {hits[k].text : k \in 1..Len(hits)}

\* C12: with one stored document whose chunks are "Salary range is
\* $50,000-$60,000 for analysts." and "Benefits include health insurance
\* and 401k.", simple_search("What is the pay for analysts?") ranks the
\* first chunk strictly above the second; for any compensation query, a
\* stored chunk with a term hit and a dollar amount scores strictly higher
\* than a stored chunk with no term hit and no pattern match, and the latter
\* is not returned.
C12_RankingScenario ==
    rd.op = "simple_search" /\ rd.top_k >= 1 =>
        LET m == rd.seen
            hits == rd.hits
        IN /\ (rd.query = Q_PAY_ANALYSTS /\ m = MappingOf(<<D_HANDBOOK>>)) =>
                  /\ hits[1].text = T_SALARY
                  /\ \A k \in 1..Len(hits) :
                         hits[k].text = T_BENEFITS =>
                             k > 1 /\ hits[1].score > hits[k].score
                  /\ ComputedScore(rd.query, T_SALARY)
                         > ComputedScore(rd.query, T_BENEFITS)
           /\ IsCompensationQuery(rd.query) =>
                  \A i, j \in 1..Len(m) :
                      LET a == m[i].val.text
                          b == m[j].val.text
                      IN (/\ TermHits(rd.query, a) > 0
                          /\ DollarMatches(Lower(a)) > 0
                          /\ TermHits(rd.query, b) = 0
                          /\ PatternScore(Lower(b), QueryWords(rd.query)) = 0)
                         => /\ ComputedScore(rd.query, a)
                                   > ComputedScore(rd.query, b)
                            /\ b \notin HitTexts(hits)
                            /\ (rd.top_k >= Len(m) => a \in HitTexts(hits))

\* the scenario itself, searched with room for both chunks
C12_Witness ==
    /\ rd.op = "simple_search"
    /\ rd.query = Q_PAY_ANALYSTS
    /\ rd.top_k = 5
    /\ rd.seen = MappingOf(<<D_HANDBOOK>>)
    /\ HitTexts(rd.hits) = {T_SALARY}
    /\ TermHits(rd.query, T_SALARY) > 0
    /\ DollarMatches(Lower(T_SALARY)) > 0
    /\ TermHits(rd.query, T_BENEFITS) = 0

\* C14: when the store is not empty but no stored chunk scores above 0
\* for the query, get_context_for_query returns the empty string, so that
\* answer_document_question answers that it found no relevant information
\* instead of prompting the LLM with a context.
C14_NoMatchSignal ==
    (/\ rd.op = "get_context_for_query"
     /\ rd.seen # <<>>
     /\ ScoringPositions(rd.seen, rd.query) = {})
    => /\ rd.context = <<>>
       /\ AnswerBranch(rd.context) = "no_relevant_information"

\* p is a prefix of s
IsPrefix(p, s) == Len(p) <= Len(s) /\ SubSeq(s, 1, Len(p)) = p

\* C15: get_context_for_query returns the empty string only if retrieval
\* returned no chunk: whenever a chunk was retrieved and max_chars > 0, the
\* context is not empty and holds, after the [From: ...] label of the first
\* retrieved chunk, a prefix of that chunk's text.
C15_EmptyOnlyWithoutChunks ==
    (/\ rd.op = "get_context_for_query"
     /\ rd.hits # <<>>
     /\ rd.max_chars > 0)
    => LET label == FromLabel(rd.hits[1].doc_name)
       IN /\ rd.context # <<>>
          /\ IsPrefix(label, rd.context)
          /\ \E n \in 0..Len(rd.hits[1].text) :
                 IsPrefix(label \o FirstN(rd.hits[1].text, n), rd.context)

\* the characters of the first n retrieved chunks
RECURSIVE CharsOfFirst(_, _)
CharsOfFirst(hits, n) ==
    IF n = 0 THEN 0 ELSE CharsOfFirst(hits, n - 1) + Len(hits[n].text)

\* part k of the context is chunk k cut to the budget left
IsTruncated(k) ==
    LET remaining == rd.max_chars - CharsOfFirst(rd.hits, k - 1)
    IN /\ CharsOfFirst(rd.hits, k) > rd.max_chars
       /\ remaining > TruncateFloor
       /\ rd.parts[k].text = FirstN(rd.hits[k].text, remaining) \o Ellipsis
       /\ Len(rd.parts[k].text) = remaining + 3

\* part k of the context is chunk k, whole, within the budget
IsWhole(k) ==
    /\ CharsOfFirst(rd.hits, k) <= rd.max_chars
    /\ rd.parts[k].text = rd.hits[k].text

\* C16: get_context_for_query adds the retrieved chunks in rank order; a
\* chunk that fits is added whole; the first chunk that would push the
\* running count past max_chars is added as its prefix of exactly
\* max_chars - count characters followed by "..." if that remainder is above
\* the floor, otherwise it is not added; no later chunk is added. So the
\* chunk text included never exceeds max_chars characters and only the last
\* part can be truncated.
C16_ContextBudget ==
    rd.op = "get_context_for_query" =>
        LET n == Len(rd.parts)
        IN /\ n <= Len(rd.hits)
           /\ \A k \in 1..n :
                  /\ rd.parts[k].doc_name = rd.hits[k].doc_name
                  /\ IsWhole(k) \/ (k = n /\ IsTruncated(k))
           /\ n < Len(rd.hits) =>
                  \/ n > 0 /\ IsTruncated(n)
                  \/ /\ CharsOfFirst(rd.hits, n + 1) > rd.max_chars
                     /\ rd.max_chars - CharsOfFirst(rd.hits, n) <= TruncateFloor
           /\ (n > 0 /\ IsTruncated(n)) =>
                  CharsOfFirst(rd.hits, n - 1) + (Len(rd.parts[n].text) - 3)
                      = rd.max_chars
           /\ (n > 0 /\ ~IsTruncated(n)) => CharsOfFirst(rd.hits, n) <= rd.max_chars
           /\ rd.context = JoinContext(rd.parts)

\* three chunks retrieved: the first added whole, the second cut, the third
\* left out
C16_Witness ==
    /\ rd.op = "get_context_for_query"
    /\ Len(rd.hits) = 3
    /\ Len(rd.parts) = 2
    /\ IsWhole(1)
    /\ IsTruncated(2)
    /\ Len(rd.hits[2].text) > Len(rd.parts[2].text)

\* the score before the phrase boosts (lines 399-443), times 20
BaseScore(query, text) ==
    TermHits(query, text) + PatternScore(Lower(text), QueryWords(query))

\* occurrences of two different original terms start less than 50
\* characters apart in the text
DifferentTermsClose(query, text) ==
    \E w1 \in QueryWords(query), w2 \in QueryWords(query) :
        /\ w1 # w2
        /\ \E p1 \in Occurrences(w1, Lower(text)),
              p2 \in Occurrences(w2, Lower(text)) :
               p1 <= p2 /\ p2 - p1 < 50

\* C17: when the query has more than one original term and the lowercased
\* query is not a substring of the chunk, the score is the base score times
\* 1.5 exactly when occurrences of two different original terms start within
\* 50 characters of each other, and the base score otherwise; occurrences of
\* one and the same term do not trigger the boost.
C17_ProximityBoost ==
    rd.op = "simple_search" =>
        \A i \in 1..Len(rd.seen) :
            LET text == rd.seen[i].val.text
            IN (/\ Cardinality(QueryWords(rd.query)) > 1
                /\ ~Contains(Lower(rd.query), Lower(text)))
               => ComputedScore(rd.query, text) =
                      IF DifferentTermsClose(rd.query, text)
                      THEN (BaseScore(rd.query, text) * 3) \div 2
                      ELSE BaseScore(rd.query, text)

\* the expanded terms that added to the score of a text
ContributingTerms(query, text) ==
    {w \in expand_query_with_synonyms(query) :
        WordScore(w, Lower(text), Range(FindWords(Lower(text))),
                  QueryWords(query)) > 0}

\* C18: every result of simple_search carries a matches list that records
\* every contribution to its score: each exactly matched expanded term, each
\* partial match as a marker naming the term, and each pattern boost; so no
\* result has an empty matches list and no contributing term is missing.
C18_MatchesExplainScore ==
    rd.op = "simple_search" =>
        \A k \in 1..Len(rd.hits) :
            LET h == rd.hits[k]
            IN /\ h.matches # <<>>
               /\ \A w \in ContributingTerms(rd.query, h.text) :
                      \E j \in 1..Len(h.matches) :
                          \/ h.matches[j] = w
                          \/ IsPrefix(w \o <<"~">>, h.matches[j])
               /\ PatternScore(Lower(h.text), QueryWords(rd.query)) > 0 =>
                      \E j \in 1..Len(h.matches) :
                          h.matches[j] \notin
                              {w : w \in expand_query_with_synonyms(rd.query)}
                          /\ ~\E w \in expand_query_with_synonyms(rd.query) :
                                 IsPrefix(w \o <<"~">>, h.matches[j])

\* hits are k pairwise distinct records of the mapping m
IsSampleOf(hits, m, k) ==
    /\ Len(hits) = k
    /\ \A a, b \in 1..Len(hits) : hits[a] = hits[b] => a = b
    /\ \A a \in 1..Len(hits) : \E i \in 1..Len(m) : hits[a] = m[i].val

\* hits are the first top_k of the keyword results, all of them scored
IsKeywordPrefix(hits, keyword_results, top_k) ==
    /\ hits = SliceTo(keyword_results, top_k)
    /\ \A a \in 1..Len(hits) : hits[a].score > 0

\* C24: on a store of n >= 1 chunks, when no chunk scores above 0 for the
\* query, semantic_search_with_gemini(query, top_k) returns min(top_k, n)
\* pairwise distinct records of the store; when a chunk scores, it returns
\* the first top_k results of the keyword search and no sampled record
\* (top_k >= 0).
C24_SamplingFallback ==
    (rd.op = "semantic_search_with_gemini" /\ rd.seen # <<>>) =>
        IF ScoringPositions(rd.seen, rd.query) = {}
        THEN IsSampleOf(rd.hits, rd.seen, Min({rd.top_k, Len(rd.seen)}))
        ELSE IsKeywordPrefix(rd.hits, simple_search(FileOf(rd.seen), rd.query, 20), rd.top_k)

\* a fallback that returned the whole store in an order of its own
C24_Witness ==
    /\ rd.op = "semantic_search_with_gemini"
    /\ Len(rd.seen) = 2
    /\ rd.top_k = 3
    /\ ScoringPositions(rd.seen, rd.query) = {}
    /\ Len(rd.hits) = 2
    /\ rd.hits[1] = rd.seen[2].val

(***************************************************************************)
(* Properties of extraction (checked under SpecExtract)                    *)
(***************************************************************************)
\* the text is a bracketed error marker
IsErrorMarker(text) ==
    /\ IsPrefix(ErrorPrefix, text)
    /\ text[Len(text)] = "]"

\* the texts of the chunks stored for doc_id, in key order
StoredTexts(m, doc_id) ==
    LET own == SelectSeq(m, LAMBDA e : e.val.doc_id = doc_id)
    IN [i \in 1..Len(own) |-> own[i].val.text]

\* what extract_text_from_file handed back after a failure is the error
\* marker or the placeholder of the missing package
FailureIsReported(extracted) ==
    /\ extracted.kind = "Exception" => IsErrorMarker(extracted.text)
    /\ extracted.kind = "ImportError" =>
           extracted.text \in {PdfPlaceholder, DocxPlaceholder}

\* C19: extract_text_from_file never raises to its caller, for every
\* payload and every file type; when decoding or parsing fails it returns
\* the marker "[Error extracting text: ...]" or the placeholder of the
\* missing package, so save_document completes and stores that text as the
\* chunks of the document.
C19_ExtractNeverRaises ==
    /\ rd.op = "extract_text_from_file" =>
           /\ ~rd.extracted.raised
           /\ FailureIsReported(rd.extracted)
    /\ call.op = "save" =>
           /\ ~call.extracted.raised
           /\ call.status # "raised"
           /\ FailureIsReported(call.extracted)
           /\ (pc = "idle" /\ call.extracted.kind # "none") =>
                  /\ call.status = "returned"
                  /\ call.chunks = chunk_text(call.extracted.text,
                                              DefaultChunkSize, DefaultOverlap)
                  /\ \A i \in 1..Len(call.chunks) :
                         \E e \in Range(load_all_chunks(chunks_file)) :
                             /\ e.key = call.file_hash \o <<"_">> \o Str(i - 1)
                             /\ e.val.doc_id = call.file_hash
                             /\ e.val.text = call.chunks[i]
                  /\ call.extracted.kind \in {"Exception", "ImportError"} =>
                         /\ call.chunks # <<>>
                         /\ IsPrefix(call.chunks[1],
                                     Strip(CollapseWs(call.extracted.text)))

\* an upload whose parsing failed has completed and its chunk is the marker
C19_Witness ==
    /\ pc = "idle"
    /\ call.op = "save" /\ call.status = "returned"
    /\ call.extracted.kind = "Exception"
    /\ IsErrorMarker(call.extracted.text)
    /\ StoredTexts(load_all_chunks(chunks_file), call.file_hash)
           = <<call.extracted.text>>

(***************************************************************************)
(* Properties of recovery (checked under SpecRecovery)                     *)
(***************************************************************************)
\* C20: while the chunk file exists but cannot be parsed, load_all_chunks
\* returns the empty mapping, so simple_search returns [], get_all_documents
\* returns [] and has_uploaded_documents returns False; the save_document
\* that follows persists a mapping that holds the chunks of the newly
\* uploaded document and nothing else.
C20_CorruptStoreIsEmpty ==
    /\ Unparsable(chunks_file) =>
           /\ load_all_chunks(chunks_file) = <<>>
           /\ \A query \in Queries, top_k \in TopKs :
                  simple_search(chunks_file, query, top_k) = <<>>
           /\ get_all_documents(chunks_file) = <<>>
           /\ ~has_uploaded_documents(chunks_file)
    /\ (ncalls = 0 /\ rd.op # "none") =>
           rd.seen = <<>> /\ rd.hits = <<>> /\ rd.docs = <<>> /\ ~rd.has
    /\ (ncalls = 1 /\ pc = "idle" /\ call.status = "returned") =>
           LET m == load_all_chunks(chunks_file)
           IN /\ \A i \in 1..Len(m) : m[i].val.doc_id = call.file_hash
              /\ StoredTexts(m, call.file_hash) = call.chunks
              /\ Len(m) = Len(call.chunks)
              /\ m = call.all_chunks

\* the first upload after the corruption has returned; the store held
\* another document before, whose raw file is still there
C20_Witness ==
    /\ ncalls = 1 /\ pc = "idle" /\ call.status = "returned"
    /\ call.pre.mapping = <<>>
    /\ \E name \in DOMAIN call.pre.files : name # call.file_path
    /\ load_all_chunks(chunks_file) # <<>>
    /\ ~Unparsable(chunks_file)

(***************************************************************************)
(* Properties of retrieval on the document store (checked under Spec)      *)
(***************************************************************************)
\* the top_k / max_chunks values tried on an empty store
EmptyStoreArgs == {-1, 0, 1, 5}

\* C13: while the chunk mapping is empty (never written, or every document
\* deleted), simple_search and semantic_search_with_gemini return the empty
\* list and get_context_for_query returns the empty string, for every query
\* and every top_k / max_chunks / max_chars; and simple_search never returns
\* a chunk that did not score, whatever the store holds.
C13_EmptyStore ==
    /\ load_all_chunks(chunks_file) = <<>> =>
           \A query \in SearchQueries, k \in EmptyStoreArgs :
               /\ simple_search(chunks_file, query, k) = <<>>
               /\ semantic_search_with_gemini(chunks_file, query, k) = {<<>>}
               /\ \A max_chars \in MaxCharsTried :
                      get_context_for_query(chunks_file, query, k, max_chars)
                          = {<<>>}
    /\ \A query \in SearchQueries, top_k \in TopKs :
           \A h \in Range(simple_search(chunks_file, query, top_k)) :
               h.score > 0

\* every stored document has been deleted again, and some query found
\* nothing to score in the store before
C13_Witness ==
    /\ pc = "idle"
    /\ call.op = "delete" /\ call.status = "returned"
    /\ call.removed > 0
    /\ call.pre.mapping # <<>>
    /\ \E query \in SearchQueries :
           ScoredChunks(call.pre.mapping, query) = <<>>
    /\ chunks_file.exists
    /\ load_all_chunks(chunks_file) = <<>>

(***************************************************************************)
(* Properties of the listing and of the two writers (checked under Spec)   *)
(***************************************************************************)
\* the doc ids of the records of the mapping m
DocIdsOf(m) == {m[i].val.doc_id : i \in 1..Len(m)}

RECURSIVE SumChunkCounts(_)
SumChunkCounts(docs) ==
    IF docs = <<>> THEN 0
    ELSE Head(docs).chunk_count + SumChunkCounts(Tail(docs))

\* docs is the listing of the mapping m: one summary per doc_id of m, each
\* counting the records of its doc_id
ListsMapping(docs, m) ==
    /\ {docs[k].id : k \in 1..Len(docs)} = DocIdsOf(m)
    /\ \A j, k \in 1..Len(docs) : docs[j].id = docs[k].id => j = k
    /\ \A k \in 1..Len(docs) :
          docs[k].chunk_count = Cardinality(KeysOfDoc(m, docs[k].id))
    /\ SumChunkCounts(docs) = Len(m)

\* C21: in every state of the store get_all_documents returns exactly one
\* summary per doc_id of the mapping, each chunk_count is the number of
\* records with that doc_id and the chunk_counts sum to the size of the
\* mapping; the same holds of what a reader was given and the mapping it
\* loaded.
C21_ListingReconstructsMapping ==
    /\ ListsMapping(get_all_documents(chunks_file), load_all_chunks(chunks_file))
    /\ rd.op = "get_all_documents" => ListsMapping(rd.docs, rd.seen)

C21_Witness ==
    /\ rd.op = "get_all_documents"
    /\ Len(rd.docs) = 2
    /\ \E k \in 1..2 : rd.docs[k].chunk_count >= 2
    /\ Len(rd.seen) >= 3
    /\ pc = "idle"

\* no raw file of the store has a name that starts with doc_id and '_'
NoBackingFile(disk, doc_id) == ~HasBackingFile(disk, doc_id)

\* C22: delete_document(doc_id) returns True exactly when a record of the
\* mapping had that doc_id just before the call, no record with that doc_id
\* is left after it, and when no raw file of doc_id is stored the call still
\* returns (False when there was no record either) instead of raising.
C22_DeleteContract ==
    (call.op = "delete" /\ call.status # "running") =>
        /\ call.status = "returned" =>
              /\ call.result = (KeysOfDoc(call.pre.mapping, call.doc_id) # {})
              /\ KeysOfDoc(call.post.mapping, call.doc_id) = {}
        /\ NoBackingFile(call.pre.files, call.doc_id) =>
              /\ call.status = "returned"
              /\ KeysOfDoc(call.pre.mapping, call.doc_id) = {} => ~call.result

\* the chunk id of position i of document id
ChunkKey(id, i) == id \o <<"_">> \o Str(i)

\* the records of the mapping m whose doc_id is not id
RecordsOfOthers(m, id) == {m[k] : k \in {j \in 1..Len(m) : m[j].val.doc_id # id}}

\* C23: when save_document(filename, content, metadata) has returned with
\* chunk_count n, the persisted mapping holds for every i in 0..n-1 under
\* the key id_i (id the content hash) the record with doc_id id,
\* chunk_index i, the i-th chunk as text, the filename as doc_name and the
\* metadata given; no key occurs twice and every key is the doc_id and the
\* chunk_index of its record; the records of other documents are the ones
\* from before the call.
C23_SaveStoresChunks ==
    (call.op = "save" /\ call.status = "returned") =>
        LET id == call.doc_info.id
            n == call.doc_info.chunk_count
            before == call.pre.mapping
            after == call.post.mapping
        IN /\ id = compute_file_hash(call.content)
           /\ n = Len(call.chunks)
           /\ call.chunks = chunk_text(call.extracted.text, DefaultChunkSize, DefaultOverlap)
           /\ after = load_all_chunks(chunks_file)
           /\ \A i \in 0..(n - 1) :
                 \E k \in 1..Len(after) :
                    /\ after[k].key = ChunkKey(id, i)
                    /\ after[k].val = [doc_id |-> id,
                                       doc_name |-> call.filename,
                                       chunk_index |-> i,
                                       text |-> call.chunks[i + 1],
                                       metadata |-> OrEmptyDict(call.metadata)]
           /\ \A j, k \in 1..Len(after) : after[j].key = after[k].key => j = k
           /\ \A k \in 1..Len(after) :
                 after[k].key = ChunkKey(after[k].val.doc_id, after[k].val.chunk_index)
           /\ RecordsOfOthers(after, id) = RecordsOfOthers(before, id)

C23_Witness ==
    /\ call.op = "save" /\ call.status = "returned"
    /\ call.doc_info.chunk_count >= 2
    /\ ~call.metadata.isNone
    /\ RecordsOfOthers(call.pre.mapping, call.doc_info.id) # {}
    /\ KeysOfDoc(call.pre.mapping, call.doc_info.id) # {}

(***************************************************************************)
(* Properties of the assistant (checked under SpecAssistant)               *)
(***************************************************************************)
\* the k-th model call of the running (or last) call_gemini_with_fallback
\* raised a rate-limit or quota error
RateLimited(k) ==
    /\ ai.tried[k].outcome.kind = "raise"
    /\ IsRateLimit(ai.tried[k].outcome.error.message)

\* call_gemini_with_fallback is over
FallbackOver == ai.pc # "gemini" /\ ai.gemini.status # "none"

\* C25: call_gemini_with_fallback calls the models in the order of
\* GEMINI_MODELS; a model is called only after every model before it raised
\* a rate-limit error; the response of the first model that answers is
\* returned and no model is called after it; an error that is not a
\* rate-limit error is raised at once, with no model called after it; when
\* all models are rate-limited, the error of the last one is raised.
C25_ModelFallbackOrder ==
    LET n == Len(ai.tried)
    IN /\ n <= Len(GEMINI_MODELS)
       /\ \A k \in 1..n : ai.tried[k].model = GEMINI_MODELS[k]
       /\ \A k \in 1..(n - 1) : RateLimited(k)
       /\ \A k \in 1..n :
             ai.tried[k].outcome.kind = "response" =>
                 /\ k = n
                 /\ FallbackOver
                 /\ ai.gemini.status = "returned"
                 /\ ai.gemini.text = ai.tried[k].outcome.text
       /\ \A k \in 1..n :
             (ai.tried[k].outcome.kind = "raise" /\ ~RateLimited(k)) =>
                 /\ k = n
                 /\ FallbackOver
                 /\ ai.gemini.status = "raised"
                 /\ ai.gemini.error = ai.tried[k].outcome.error
       /\ (FallbackOver /\ n = Len(GEMINI_MODELS) /\ RateLimited(n)) =>
             /\ ai.gemini.status = "raised"
             /\ ai.gemini.error = ai.tried[n].outcome.error
       /\ FallbackOver => n >= 1

\* every model was rate-limited, each with an error of its own, and the
\* error of the last one was raised
C25_Witness ==
    /\ FallbackOver
    /\ Len(ai.tried) = 3
    /\ \A k \in 1..3 : RateLimited(k)
    /\ ai.tried[1].outcome.error # ai.tried[3].outcome.error
    /\ ai.tried[2].outcome.error # ai.tried[3].outcome.error
    /\ ai.gemini.status = "raised"
    /\ ai.gemini.error = ai.tried[3].outcome.error

\* q begins with SELECT in any case
BeginsWithSelect(q) ==
    /\ Len(q) >= 6
    /\ Lower(SubSeq(q, 1, 6)) = <<"s", "e", "l", "e", "c", "t">>

\* the attempt that has just come back from the models ended in an error:
\* the call raised, or the response has no text to strip
AttemptError ==
    IF ai.gemini.status = "raised" THEN ai.gemini.error ELSE E_NONE_STRIP

AttemptRaised == ai.gemini.status = "raised" \/ ai.gemini.text.isNone

\* generate_sql_query returns (sql_query, message) in the step
GenerateReturns(sql_query, message) ==
    /\ ai'.pc = "generated"
    /\ ai'.gen = [status |-> "returned", sql_query |-> sql_query, message |-> message]

\* generate_sql_query starts its next attempt in the step
GenerateRetries ==
    /\ ai'.pc = "gemini" /\ ai'.ret = "gen"
    /\ ai'.attempt = ai.attempt + 1
    /\ ai'.attempt < max_retries
    /\ ai'.gen.status = "none"

\* what generate_sql_query does when an attempt has come back
AttemptContract ==
    IF AttemptRaised
    THEN IF IsRateLimit(AttemptError.message)
         THEN GenerateReturns(NoText, RateLimitMessage)
         ELSE IF ai.attempt + 1 < max_retries THEN GenerateRetries
         ELSE GenerateReturns(NoText, ErrorGeneratingPrefix \o AttemptError.message)
    ELSE IF BeginsWithSelect(CleanSql(ai.gemini.text.text))
         THEN GenerateReturns(Text(CleanSql(ai.gemini.text.text)), QueryGenerated)
         ELSE IF ai.attempt + 1 < max_retries THEN GenerateRetries
         ELSE GenerateReturns(NoText, FailedToGenerate)

\* C26: generate_sql_query makes at most 3 attempts and every step of it
\* ends in a return or in the next attempt, never in an exception: it
\* returns a query only for a cleaned response that begins with SELECT; on
\* a rate-limit error it returns (None, rate-limit message) at once; after
\* another error it tries again, and after the third attempt returns
\* (None, error message); when the third attempt gives no SELECT either it
\* returns (None, "Failed to generate valid SQL query"); and a
\* generate_sql_query that was called does return.
C26_GenerateSqlContract ==
    /\ [][/\ (ai.pc = "gemini_done" /\ ai.ret = "gen") => AttemptContract
          /\ ai.pc = "generate" =>
                 \/ ai'.pc = "gemini" /\ ai'.ret = "gen" /\ ai'.attempt = 0
                 \/ ai'.pc = "generated" /\ ai'.gen.status = "returned" /\ ai'.gen.sql_query.isNone
          /\ ai'.ret = "gen" => ai'.attempt < max_retries
          /\ (ai'.gen.status = "returned" /\ ~ai'.gen.sql_query.isNone) =>
                 BeginsWithSelect(ai'.gen.sql_query.text)]_vars
    /\ (ai.pc = "generate" ~> ai.pc = "generated")

\* the second attempt ended in a quota error after a first attempt that
\* gave no query, and generate_sql_query returned the rate-limit message
C26_Witness ==
    /\ ai.pc = "generated"
    /\ ai.attempt = 1
    /\ ai.gemini.status = "raised"
    /\ ai.gemini.error = E_QUOTA
    /\ ai.gen = [status |-> "returned", sql_query |-> NoText, message |-> RateLimitMessage]

\* the dicts answer_hr_question may return: a status of success or error
\* and an answer that is a string
IsAnswerDict(dict) ==
    /\ dict.returned /\ ~dict.raised
    /\ dict.status \in {"success", "error"}
    /\ ~dict.answer.isNone

\* C27: answer_hr_question is total: whatever the classification, the
\* model calls and the executions of the query do, it returns a dict whose
\* status is success or error and whose answer is a string, and no
\* exception leaves it; when generate_sql_query returns no query it goes on
\* with answer_general_question, executes nothing and returns the dict of
\* that answer; and an answer_hr_question that was called does return.
C27_AnswerIsTotal ==
    /\ [](/\ ~ai.result.raised
          /\ ai.pc = "done" => IsAnswerDict(ai.result)
          /\ ai.pc # "done" => ai.result = NoResult
          /\ (ai.gen.status = "returned" /\ ai.gen.sql_query.isNone) =>
                 ai.executed = <<>>)
    /\ [][(ai.pc = "generated" /\ ai.gen.sql_query.isNone) =>
              (ai'.pc = "general" /\ ~ai'.prefixed /\ ai'.result = NoResult)]_vars
    /\ (ai.pc # "idle" ~> ai.pc = "done")

\* three attempts gave no query, and the question was answered from
\* general knowledge
C27_Witness ==
    /\ ai.pc = "done"
    /\ ai.question_type = "database"
    /\ ai.gen = [status |-> "returned", sql_query |-> NoText, message |-> FailedToGenerate]
    /\ ai.ret = "general"
    /\ ai.gemini.status = "returned"
    /\ ai.result.status = "success"
    /\ ai.executed = <<>>

\* C28: every string answer_hr_question passes to execute_query begins
\* with SELECT in any case, the query of the second try after a syntax
\* error included; a response of the models that does not begin with
\* SELECT once cleaned is never executed.
C28_SelectOnlyExecution ==
    /\ \A i \in 1..Len(ai.executed) : BeginsWithSelect(ai.executed[i])
    /\ Len(ai.executed) <= 2
    /\ ai.executed # <<>> =>
          /\ ai.gen.status = "returned" /\ ~ai.gen.sql_query.isNone
          /\ ai.executed[1] = ai.gen.sql_query.text
          /\ \E r \in ResponseTexts \ {NoText} : ai.executed[1] = CleanSql(r.text)

\* a lower-case select from a fenced response was executed, failed with a
\* syntax error and was executed again after fix_sql_quotes
C28_Witness ==
    /\ Len(ai.executed) = 2
    /\ ai.executed[1] = CleanSql(R_FENCED)
    /\ SubSeq(ai.executed[1], 1, 6) = <<"s", "e", "l", "e", "c", "t">>
    /\ ai.executed[2] = fix_sql_quotes(ai.executed[1])
    /\ ai.pc = "general" /\ ai.prefixed

(***************************************************************************)
(* Properties of re-uploads and of the delete frame                        *)
(***************************************************************************)
\* the records of document id in the mapping m
RecordsOfDoc(m, id) == {m[k].val : k \in {j \in 1..Len(m) : m[j].val.doc_id = id}}

\* C29: when save_document is the last call made and has returned, the
\* document it returned is listed by get_all_documents with the chunk_count
\* the call returned, and every stored record of that doc_id carries the
\* filename and the metadata of the call: no record of an earlier upload of
\* the same bytes is left.
C29_PutListConsistency ==
    (pc = "idle" /\ call.op = "save" /\ call.status = "returned") =>
        LET docs == get_all_documents(chunks_file)
            m == load_all_chunks(chunks_file)
            id == call.doc_info.id
        IN /\ \A k \in 1..Len(docs) :
                 docs[k].id = id => docs[k].chunk_count = call.doc_info.chunk_count
           /\ \A chunk \in RecordsOfDoc(m, id) :
                 /\ chunk.doc_name = call.doc_info.filename
                 /\ chunk.metadata = call.doc_info.metadata

\* the raw files of the directory disk that belong to documents other than
\* doc_id: a raw file belongs to the document whose id is the hash of its
\* bytes
RawFilesOfOthers(disk, doc_id) ==
    {name \in DOMAIN disk : compute_file_hash(disk[name]) # doc_id}

\* C30: when delete_document(doc_id) is over, whatever doc_id was, the
\* records of the mapping whose doc_id differs from it are the ones from
\* before the call, and every raw file of another document is still stored
\* with the same bytes.
C30_DeleteFrame ==
    (pc = "idle" /\ call.op = "delete" /\ call.status \in {"returned", "raised"}) =>
        /\ RecordsOfOthers(call.post.mapping, call.doc_id) = RecordsOfOthers(call.pre.mapping, call.doc_id)
        /\ \A name \in RawFilesOfOthers(call.pre.files, call.doc_id) :
              /\ name \in DOMAIN call.post.files
              /\ call.post.files[name] = call.pre.files[name]

====
